---------------------------- MODULE Spec2Model ----------------------------
(***************************************************************************)
(* A state-machine model of the RSP vector unit (COP2) of r64,             *)
(* src/src/sp/cop2.rs: the vector register file, the accumulator, the VCO  *)
(* flag vectors, the CPU context's general registers and DMEM, with one    *)
(* action per entry point of the Cop trait (op, lwc, swc, set_reg); and of *)
(* the floating-point unit (COP1), src/src/mips64/cop1.rs: its register    *)
(* file, with one action for Cop1::op.                                     *)
(*                                                                         *)
(* Representation of machine integers (TLC's integers are 32 bits wide):   *)
(*   u8, u16     a natural number                                          *)
(*   u32         <<hi, lo>>, two 16-bit halves                             *)
(*   u64         a function 0..3 -> u16, index 0 the most significant word *)
(*   u128        a function 0..15 -> u8, index 0 the most significant byte *)
(*   [u8; 16]    a function 0..15 -> u8, index = offset in memory          *)
(*   __m128i     a function 0..7 -> u16, index j = 16-bit element j, the   *)
(*               one held by bytes 2j and 2j+1 of memory                   *)
(***************************************************************************)
EXTENDS Integers, Sequences, FiniteSets, TLC

VARIABLES vregs, accum, vco_carry, vco_ne, regs, dmem, cop1_regs,
          overflow_checks, panicked, last, prev, steps

vars == <<vregs, accum, vco_carry, vco_ne, regs, dmem, cop1_regs,
          overflow_checks, panicked, last, prev, steps>>

(***************************************************************************)
(* Program constants.                                                      *)
(***************************************************************************)
REG_VCO == 32
REG_VCC == 33
REG_VCE == 34
REG_ACCUM_LO == 35
REG_ACCUM_MD == 36
REG_ACCUM_HI == 37
NumVregs == 32
DmemSize == 4096

(***************************************************************************)
(* Bit operations on natural numbers.                                      *)
(***************************************************************************)
RECURSIVE bitand(_, _)
bitand(a, b) ==
    IF a = 0 \/ b = 0 THEN 0
    ELSE (a % 2) * (b % 2) + 2 * bitand(a \div 2, b \div 2)

RECURSIVE bitor(_, _)
bitor(a, b) ==
    IF a = 0 THEN b
    ELSE IF b = 0 THEN a
    ELSE (IF a % 2 = 1 \/ b % 2 = 1 THEN 1 ELSE 0) + 2 * bitor(a \div 2, b \div 2)

RECURSIVE bitxor(_, _)
bitxor(a, b) ==
    IF a = 0 THEN b
    ELSE IF b = 0 THEN a
    ELSE ((a + b) % 2) + 2 * bitxor(a \div 2, b \div 2)

\* 2^n for n in 0..30
Pow2Table ==
    <<1, 2, 4, 8, 16, 32, 64, 128, 256, 512, 1024, 2048, 4096, 8192, 16384, 32768,
      65536, 131072, 262144, 524288, 1048576, 2097152, 4194304, 8388608, 16777216,
      33554432, 67108864, 134217728, 268435456, 536870912, 1073741824>>
pow2(n) == Pow2Table[n + 1]

(***************************************************************************)
(* u128 arithmetic: shifts by an amount below 128, rotation, bitwise       *)
(* operations.  Index 0 is the most significant byte.                      *)
(***************************************************************************)
u128_zero == [k \in 0..15 |-> 0]
u128_ones == [k \in 0..15 |-> 255]

u128_byte(v, i) == IF i >= 0 /\ i <= 15 THEN v[i] ELSE 0

u128_shl(v, n) ==
    LET q == n \div 8
        r == n % 8
    IN  [k \in 0..15 |->
            ((u128_byte(v, k + q) * pow2(r)) % 256)
            + (u128_byte(v, k + q + 1) \div pow2(8 - r))]

u128_shr(v, n) ==
    LET q == n \div 8
        r == n % 8
    IN  [k \in 0..15 |->
            (u128_byte(v, k - q) \div pow2(r))
            + ((u128_byte(v, k - q - 1) * pow2(8 - r)) % 256)]

u128_rotate_left(v, n) ==
    LET m == n % 128
        q == m \div 8
        r == m % 8
    IN  [k \in 0..15 |->
            ((v[(k + q) % 16] * pow2(r)) % 256)
            + (v[(k + q + 1) % 16] \div pow2(8 - r))]

u128_and(a, b) == [k \in 0..15 |-> bitand(a[k], b[k])]
u128_or(a, b) == [k \in 0..15 |-> bitor(a[k], b[k])]
u128_not(a) == [k \in 0..15 |-> 255 - a[k]]

(***************************************************************************)
(* The byteorder crate, as cop2.rs uses it on 16-byte buffers.             *)
(***************************************************************************)
LittleEndian_read_u16(buf, off) == buf[off] + 256 * buf[off + 1]

LittleEndian_write_u16(buf, off, v) ==
    [buf EXCEPT ![off] = v % 256, ![off + 1] = v \div 256]

LittleEndian_read_u128(buf) == [k \in 0..15 |-> buf[15 - k]]

LittleEndian_write_u128(val) == [k \in 0..15 |-> val[15 - k]]

BigEndian_read_u128(buf) == [k \in 0..15 |-> buf[k]]

BigEndian_write_u128(val) == [k \in 0..15 |-> val[k]]

ByteOrder_read_u128(B, buf) ==
    IF B = "LittleEndian" THEN LittleEndian_read_u128(buf)
    ELSE BigEndian_read_u128(buf)

ByteOrder_write_u128(B, val) ==
    IF B = "LittleEndian" THEN LittleEndian_write_u128(val)
    ELSE BigEndian_write_u128(val)

(***************************************************************************)
(* The SSE2 intrinsics of std::arch::x86_64 that cop2.rs uses.             *)
(***************************************************************************)
i16(x) == IF x >= 32768 THEN x - 65536 ELSE x
u16(x) == x % 65536
sat_i16(x) == IF x > 32767 THEN 32767 ELSE IF x < -32768 THEN -32768 ELSE x

mm_setzero_si128 == [j \in 0..7 |-> 0]
mm_set1_epi16(x) == [j \in 0..7 |-> u16(x)]
mm_loadu_si128(buf) == [j \in 0..7 |-> buf[2 * j] + 256 * buf[2 * j + 1]]
mm_store_si128(val) ==
    [k \in 0..15 |-> IF k % 2 = 0 THEN val[k \div 2] % 256 ELSE val[k \div 2] \div 256]

mm_add_epi16(a, b) == [j \in 0..7 |-> (a[j] + b[j]) % 65536]
mm_adds_epi16(a, b) == [j \in 0..7 |-> u16(sat_i16(i16(a[j]) + i16(b[j])))]
mm_min_epi16(a, b) == [j \in 0..7 |-> IF i16(a[j]) < i16(b[j]) THEN a[j] ELSE b[j]]
mm_max_epi16(a, b) == [j \in 0..7 |-> IF i16(a[j]) > i16(b[j]) THEN a[j] ELSE b[j]]
mm_cmpgt_epi16(a, b) == [j \in 0..7 |-> IF i16(a[j]) > i16(b[j]) THEN 65535 ELSE 0]
mm_srli_epi16(a, n) == [j \in 0..7 |-> IF n > 15 THEN 0 ELSE a[j] \div pow2(n)]
mm_and_si128(a, b) == [j \in 0..7 |-> bitand(a[j], b[j])]
mm_or_si128(a, b) == [j \in 0..7 |-> bitor(a[j], b[j])]
mm_xor_si128(a, b) == [j \in 0..7 |-> bitxor(a[j], b[j])]

mm_shufflelo_epi16(v, imm) ==
    [j \in 0..7 |-> IF j < 4 THEN v[(imm \div pow2(2 * j)) % 4] ELSE v[j]]
mm_shufflehi_epi16(v, imm) ==
    [j \in 0..7 |-> IF j >= 4 THEN v[4 + ((imm \div pow2(2 * (j - 4))) % 4)] ELSE v[j]]

(***************************************************************************)
(* The machine as one record S: the fields of SpCop2 (vregs, accum,        *)
(* vco_carry, vco_ne), the CPU context's registers (regs), the DMEM buffer *)
(* of the Sp device (dmem), and whether a panic has ended the emulation.   *)
(***************************************************************************)
Panic(S) == [S EXCEPT !.panicked = TRUE]

\* u64 -> u16, u64 -> u32 ("as u16", "as u32") and u16 -> u64 ("as u64").
u64_as_u16(x) == x[3]
u64_as_u32(x) == <<x[2], x[3]>>
u16_as_u64(x) == [w \in 0..3 |-> IF w = 3 THEN x ELSE 0]
u16_as_u128(x) == [k \in 0..15 |-> IF k = 14 THEN x \div 256 ELSE IF k = 15 THEN x % 256 ELSE 0]
u128_as_u16(v) == v[14] * 256 + v[15]

\* SpCop2::oploadstore: the fields of a load/store instruction word.
oploadstore(op, ctxregs) ==
    [base    |-> u64_as_u32(ctxregs[(op \div pow2(21)) % 32]),
     vt      |-> (op \div pow2(16)) % 32,
     opcode  |-> (op \div pow2(11)) % 32,
     element |-> (op \div pow2(7)) % 16,
     offset  |-> op % 128]

vce(S) == 0
set_vce(S, vec) == S

vcc(S) == 0
set_vcc(S, vec) == S

\* SpCop2::vco: bit i is carry slot 7-i, bit i+8 is ne slot 7-i.
RECURSIVE vco_from(_, _, _)
vco_from(S, i, res) ==
    IF i = 8 THEN res
    ELSE vco_from(S, i + 1,
            bitor(bitor(res,
                    u16(LittleEndian_read_u16(S.vco_carry, (7 - i) * 2) * pow2(i))),
                  u16(LittleEndian_read_u16(S.vco_ne, (7 - i) * 2) * pow2(i + 8))))

vco(S) == vco_from(S, 0, 0)

\* set_vco without the "& 1" of each lane
RECURSIVE set_vco_from_unmasked(_, _, _)
set_vco_from_unmasked(S, v, i) ==
    IF i = 8 THEN S
    ELSE set_vco_from_unmasked(
            [S EXCEPT
               !.vco_carry = LittleEndian_write_u16(@, (7 - i) * 2, v \div pow2(i)),
               !.vco_ne = LittleEndian_write_u16(@, (7 - i) * 2, v \div pow2(i + 8))],
            v, i + 1)

RECURSIVE set_vco_from(_, _, _)
set_vco_from(S, v, i) ==
    IF i = 8 THEN S
    ELSE set_vco_from(
            [S EXCEPT
               !.vco_carry = LittleEndian_write_u16(@, (7 - i) * 2, (v \div pow2(i)) % 2),
               !.vco_ne = LittleEndian_write_u16(@, (7 - i) * 2, (v \div pow2(i + 8)) % 2)],
            v, i + 1)

set_vco(S, v) == set_vco_from(S, v, 0)

(***************************************************************************)
(* Vectorop: the fields of a VU instruction word and the operand access.   *)
(* An instruction word is modelled by its bits 25..0; the coprocessor      *)
(* reads no bit above bit 25.                                              *)
(***************************************************************************)
Vectorop_func(op) == op % 64
Vectorop_e(op) == (op \div pow2(21)) % 16
Vectorop_rs(op) == (op \div pow2(11)) % 32
Vectorop_rt(op) == (op \div pow2(16)) % 32
Vectorop_rd(op) == (op \div pow2(6)) % 32

Vectorop_vs(S, op) == mm_loadu_si128(S.vregs[Vectorop_rs(op)])

\* Mutant of Vectorop_vte: the shuffle immediates of e = 2 and e = 3 exchanged.
Vectorop_vte_swapped(S, op) ==
    LET vt == mm_loadu_si128(S.vregs[(op \div pow2(16)) % 32])
        e == (op \div pow2(21)) % 16
    IN  CASE e \in 0..1 -> vt
          [] e = 2 -> mm_shufflehi_epi16(mm_shufflelo_epi16(vt, 160), 160)
          [] e = 3 -> mm_shufflehi_epi16(mm_shufflelo_epi16(vt, 245), 245)
          [] e = 4 -> mm_shufflehi_epi16(mm_shufflelo_epi16(vt, 255), 255)
          [] e = 5 -> mm_shufflehi_epi16(mm_shufflelo_epi16(vt, 170), 170)
          [] e = 6 -> mm_shufflehi_epi16(mm_shufflelo_epi16(vt, 85), 85)
          [] e = 7 -> mm_shufflehi_epi16(mm_shufflelo_epi16(vt, 0), 0)
          [] e \in 8..15 ->
               mm_set1_epi16(LittleEndian_read_u16(S.vregs[(op \div pow2(16)) % 32], (15 - e) * 2))
          [] OTHER -> vt

Vectorop_vte(S, op) ==
    LET vt == mm_loadu_si128(S.vregs[Vectorop_rt(op)])
        e == Vectorop_e(op)
    IN  CASE e \in 0..1 -> vt
          [] e = 2 -> mm_shufflehi_epi16(mm_shufflelo_epi16(vt, 245), 245)
          [] e = 3 -> mm_shufflehi_epi16(mm_shufflelo_epi16(vt, 160), 160)
          [] e = 4 -> mm_shufflehi_epi16(mm_shufflelo_epi16(vt, 255), 255)
          [] e = 5 -> mm_shufflehi_epi16(mm_shufflelo_epi16(vt, 170), 170)
          [] e = 6 -> mm_shufflehi_epi16(mm_shufflelo_epi16(vt, 85), 85)
          [] e = 7 -> mm_shufflehi_epi16(mm_shufflelo_epi16(vt, 0), 0)
          [] e \in 8..15 ->
               mm_set1_epi16(LittleEndian_read_u16(S.vregs[Vectorop_rt(op)], (15 - e) * 2))
          [] OTHER -> vt

Vectorop_setvd(S, op, val) == [S EXCEPT !.vregs[Vectorop_rd(op)] = mm_store_si128(val)]
Vectorop_accum(S, idx) == mm_loadu_si128(S.accum[idx])
Vectorop_setaccum(S, idx, val) == [S EXCEPT !.accum[idx] = mm_store_si128(val)]
Vectorop_carry(S) == mm_loadu_si128(S.vco_carry)
Vectorop_setcarry(S, val) == [S EXCEPT !.vco_carry = mm_store_si128(val)]
Vectorop_setne(S, val) == [S EXCEPT !.vco_ne = mm_store_si128(val)]

\* The func codes of the twelve multiply-accumulate kernels of the vmul module.
VmulFuncs == {0, 1, 4, 5, 6, 7, 8, 9, 12, 13, 14, 15}

\* op_vmul!: the kernel's four results go to vd and the accumulator.  The
\* kernel itself (vmul::$name) is not part of the modelled source: kern is the
\* quadruple it returns.
op_vmul(S, op, kern) ==
    Vectorop_setaccum(
      Vectorop_setaccum(
        Vectorop_setaccum(Vectorop_setvd(S, op, kern.res), 0, kern.acc_lo),
        1, kern.acc_md),
      2, kern.acc_hi)

\* Mutant of uop_VADD: the carry added after the saturating sum of vs and vt.
uop_VADD_naive(S, op) ==
    LET vs == Vectorop_vs(S, op)
        vt == Vectorop_vte(S, op)
        carry == Vectorop_carry(S)
        S1 == Vectorop_setvd(S, op, mm_adds_epi16(mm_adds_epi16(vs, vt), carry))
        S2 == Vectorop_setaccum(S1, 0, mm_add_epi16(mm_add_epi16(vs, vt), carry))
        S3 == Vectorop_setcarry(S2, mm_setzero_si128)
    IN  Vectorop_setne(S3, mm_setzero_si128)

\* Mutant of uop_VADD: the carry added to the maximum instead of the minimum.
uop_VADD_carrymax(S, op) ==
    LET vs == Vectorop_vs(S, op)
        vt == Vectorop_vte(S, op)
        carry == Vectorop_carry(S)
        min == mm_min_epi16(vs, vt)
        max == mm_max_epi16(vs, vt)
        S1 == Vectorop_setvd(S, op, mm_adds_epi16(mm_adds_epi16(max, carry), min))
        S2 == Vectorop_setaccum(S1, 0, mm_add_epi16(mm_add_epi16(vs, vt), carry))
        S3 == Vectorop_setcarry(S2, mm_setzero_si128)
    IN  Vectorop_setne(S3, mm_setzero_si128)

uop_VADD(S, op) ==
    LET vs == Vectorop_vs(S, op)
        vt == Vectorop_vte(S, op)
        carry == Vectorop_carry(S)
        min == mm_min_epi16(vs, vt)
        max == mm_max_epi16(vs, vt)
        S1 == Vectorop_setvd(S, op, mm_adds_epi16(mm_adds_epi16(min, carry), max))
        S2 == Vectorop_setaccum(S1, 0, mm_add_epi16(mm_add_epi16(vs, vt), carry))
        S3 == Vectorop_setcarry(S2, mm_setzero_si128)
    IN  Vectorop_setne(S3, mm_setzero_si128)

\* Mutant of uop_VADDC: the comparison made on the signed values (no sign flip).
uop_VADDC_signed(S, op) ==
    LET vs == Vectorop_vs(S, op)
        vt == Vectorop_vte(S, op)
        res == mm_add_epi16(vs, vt)
        S1 == Vectorop_setvd(S, op, res)
        S2 == Vectorop_setaccum(S1, 0, res)
        S3 == Vectorop_setne(S2, mm_setzero_si128)
        carry == mm_cmpgt_epi16(vs, res)
    IN  Vectorop_setcarry(S3, mm_srli_epi16(carry, 15))

uop_VADDC(S, op) ==
    LET vs == Vectorop_vs(S, op)
        vt == Vectorop_vte(S, op)
        res == mm_add_epi16(vs, vt)
        S1 == Vectorop_setvd(S, op, res)
        S2 == Vectorop_setaccum(S1, 0, res)
        S3 == Vectorop_setne(S2, mm_setzero_si128)
        mask == mm_set1_epi16(32768)
        carry == mm_cmpgt_epi16(mm_xor_si128(mask, vs), mm_xor_si128(mask, res))
    IN  Vectorop_setcarry(S3, mm_srli_epi16(carry, 15))

\* Mutant of uop_VSAR: the accumulator slices taken in the order LO, MID, HI.
uop_VSAR_reversed(S, op) ==
    LET e == Vectorop_e(op)
    IN  CASE e \in 0..2 -> Vectorop_setvd(S, op, mm_setzero_si128)
          [] e \in 8..10 -> Vectorop_setvd(S, op, Vectorop_accum(S, e - 8))
          [] OTHER -> Panic(S)

uop_VSAR(S, op) ==
    LET e == Vectorop_e(op)
    IN  CASE e \in 0..2 -> Vectorop_setvd(S, op, mm_setzero_si128)
          [] e \in 8..10 -> Vectorop_setvd(S, op, Vectorop_accum(S, 2 - (e - 8)))
          [] OTHER -> Panic(S)

\* VAND .. VNXOR: res goes to vd and to accumulator LO.
uop_logical(S, op) ==
    LET vs == Vectorop_vs(S, op)
        vt == Vectorop_vte(S, op)
        f == Vectorop_func(op)
        m1 == mm_set1_epi16(65535)
        res == CASE f = 40 -> mm_and_si128(vs, vt)
                 [] f = 41 -> mm_xor_si128(mm_and_si128(vs, vt), m1)
                 [] f = 42 -> mm_or_si128(vs, vt)
                 [] f = 43 -> mm_xor_si128(mm_or_si128(vs, vt), m1)
                 [] f = 44 -> mm_xor_si128(vs, vt)
                 [] OTHER -> mm_xor_si128(mm_xor_si128(vs, vt), m1)
    IN  Vectorop_setaccum(Vectorop_setvd(S, op, res), 0, res)

\* The non-VU half of uop: CFC2 (e = 2) and CTC2 (e = 6).
uop_CFC2(S, op) ==
    LET rs == Vectorop_rs(op)
        rt == Vectorop_rt(op)
    IN  CASE rs = 0 -> [S EXCEPT !.regs[rt] = u16_as_u64(vco(S))]
          [] rs = 1 -> [S EXCEPT !.regs[rt] = u16_as_u64(vcc(S))]
          [] rs = 2 -> [S EXCEPT !.regs[rt] = u16_as_u64(vce(S))]
          [] OTHER -> Panic(S)

uop_CTC2(S, op) ==
    LET rs == Vectorop_rs(op)
        rt == Vectorop_rt(op)
    IN  CASE rs = 0 -> set_vco(S, u64_as_u16(S.regs[rt]))
          [] rs = 1 -> set_vcc(S, u64_as_u16(S.regs[rt]))
          [] rs = 2 -> set_vce(S, u64_as_u16(S.regs[rt]))
          [] OTHER -> Panic(S)

\* SpCop2::uop.
uop(S, op, kern) ==
    LET f == Vectorop_func(op)
    IN  IF (op \div pow2(25)) % 2 # 0
        THEN CASE f \in VmulFuncs -> op_vmul(S, op, kern)
               [] f = 16 -> uop_VADD(S, op)
               [] f = 20 -> uop_VADDC(S, op)
               [] f = 29 -> uop_VSAR(S, op)
               [] f \in 40..45 -> uop_logical(S, op)
               [] OTHER -> Panic(S)
        ELSE CASE Vectorop_e(op) = 2 -> uop_CFC2(S, op)
               [] Vectorop_e(op) = 6 -> uop_CTC2(S, op)
               [] OTHER -> Panic(S)

(***************************************************************************)
(* Arithmetic that can overflow.  An overflowing u32 addition, an          *)
(* overflowing usize subtraction and a shift by the full width of the type *)
(* panic in a build with overflow checks (the debug profile) and wrap in a *)
(* build without them (the release profile); checks is that choice.        *)
(***************************************************************************)
u32_add(base, x) ==
    LET lo == base[2] + x
        hi == base[1] + (lo \div 65536)
    IN  [overflow |-> hi >= 65536, val |-> <<hi % 65536, lo % 65536>>]

\* ((base + x) & 0xFFF) as usize
effective_address(base, x, checks) ==
    LET sum == u32_add(base, x)
    IN  [panic |-> checks /\ sum.overflow, ea |-> sum.val[2] % 4096]

write_partial_left(B, dst, src, skip_bits) ==
    LET mask == IF skip_bits < 128 THEN u128_shl(u128_ones, skip_bits) ELSE u128_zero
        src1 == IF skip_bits < 128 THEN u128_shl(src, skip_bits) ELSE u128_zero
        d == ByteOrder_read_u128(B, dst)
    IN  ByteOrder_write_u128(B, u128_or(u128_and(d, u128_not(mask)), u128_and(src1, mask)))

write_partial_right(B, dst, src, skip_bits, nbits, checks) ==
    LET mask0 == u128_shl(u128_ones, nbits % 128)
        mask == IF skip_bits < 128 THEN u128_shr(mask0, skip_bits) ELSE u128_zero
        src1 == IF skip_bits < 128 THEN u128_shr(src, skip_bits) ELSE u128_zero
        d == ByteOrder_read_u128(B, dst)
    IN  IF nbits >= 128 /\ checks
        THEN [panic |-> TRUE, dst |-> dst]
        ELSE [panic |-> FALSE,
              dst |-> ByteOrder_write_u128(B,
                        u128_or(u128_and(d, u128_not(mask)), u128_and(src1, mask)))]

\* mem with its n bytes from start on replaced by bytes[0 .. n-1]
RECURSIVE write_bytes(_, _, _, _)
write_bytes(mem, start, bytes, n) ==
    IF n = 0 THEN mem
    ELSE write_bytes([mem EXCEPT ![start + n - 1] = bytes[n - 1]], start, bytes, n - 1)

\* MemInt (crate emu): a big-endian read of SIZE bytes widened to u64, and a
\* big-endian write of the low SIZE bytes of a u64.
MemInt_endian_read_from(mem, ea, SIZE) ==
    LET b(i) == IF i < 8 - SIZE THEN 0 ELSE mem[ea + i - (8 - SIZE)]
    IN  [w \in 0..3 |-> b(2 * w) * 256 + b(2 * w + 1)]

MemInt_endian_write_to(mem, ea, SIZE, val) ==
    LET b(i) == IF i % 2 = 0 THEN val[i \div 2] \div 256 ELSE val[i \div 2] % 256
    IN  write_bytes(mem, ea, [i \in 0..SIZE - 1 |-> b(i + (8 - SIZE))], SIZE)

u64_into_u128(x) ==
    [k \in 0..15 |->
        IF k < 8 THEN 0
        ELSE IF k % 2 = 0 THEN x[(k - 8) \div 2] \div 256 ELSE x[(k - 8) \div 2] % 256]

u128_as_u64(v) == [w \in 0..3 |-> v[8 + 2 * w] * 256 + v[8 + 2 * w + 1]]

\* dmem[start .. start + 16], and the buffer with these sixteen bytes replaced
slice16(mem, start) == [k \in 0..15 |-> mem[start + k]]
with_slice16(mem, start, buf) == write_bytes(mem, start, buf, 16)

\* lxv::<T>, T given by SIZE_LOG: the new contents of the register, or a panic
lxv(SIZE_LOG, regptr, element, mem, base, offset, checks) ==
    LET SIZE == pow2(SIZE_LOG)
        a == effective_address(base, offset * SIZE, checks)
        ea == a.ea
        mem64 == MemInt_endian_read_from(mem, ea, SIZE)
        m == u128_shl(u64_into_u128(mem64), 128 - SIZE * 8)
    IN  IF a.panic \/ ea + SIZE > DmemSize
        THEN [panic |-> TRUE, dst |-> regptr]
        ELSE write_partial_right("LittleEndian", regptr, m, element * 8, SIZE * 8, checks)

\* sxv::<T>: the new contents of DMEM, or a panic
sxv(SIZE_LOG, mem, base, offset, regptr, element, checks) ==
    LET SIZE == pow2(SIZE_LOG)
        a == effective_address(base, offset * SIZE, checks)
        ea == a.ea
        reg0 == u128_rotate_left(LittleEndian_read_u128(regptr), element * 8)
        reg1 == u128_shr(reg0, 128 - SIZE * 8)
    IN  IF a.panic \/ ea + SIZE > DmemSize
        THEN [panic |-> TRUE, mem |-> mem]
        ELSE [panic |-> FALSE,
              mem |-> MemInt_endian_write_to(mem, ea, SIZE, u128_as_u64(reg1))]

(***************************************************************************)
(* impl Cop for SpCop2.                                                    *)
(***************************************************************************)
reg(S, idx) ==
    CASE idx = REG_VCO -> u16_as_u128(vco(S))
      [] idx = REG_VCC -> u16_as_u128(vcc(S))
      [] idx = REG_VCE -> u16_as_u128(vce(S))
      [] idx = REG_ACCUM_LO -> LittleEndian_read_u128(S.accum[0])
      [] idx = REG_ACCUM_MD -> LittleEndian_read_u128(S.accum[1])
      [] idx = REG_ACCUM_HI -> LittleEndian_read_u128(S.accum[2])
      [] OTHER -> LittleEndian_read_u128(S.vregs[idx])

\* set_reg writing a vector register in big-endian byte order
set_reg_bigendian(S, idx, val) ==
    CASE idx = REG_VCO -> set_vco(S, u128_as_u16(val))
      [] idx = REG_VCC -> set_vcc(S, u128_as_u16(val))
      [] idx = REG_VCE -> set_vce(S, u128_as_u16(val))
      [] idx = REG_ACCUM_LO -> [S EXCEPT !.accum[0] = LittleEndian_write_u128(val)]
      [] idx = REG_ACCUM_MD -> [S EXCEPT !.accum[1] = LittleEndian_write_u128(val)]
      [] idx = REG_ACCUM_HI -> [S EXCEPT !.accum[2] = LittleEndian_write_u128(val)]
      [] idx < NumVregs -> [S EXCEPT !.vregs[idx] = BigEndian_write_u128(val)]
      [] OTHER -> Panic(S)

set_reg(S, idx, val) ==
    CASE idx = REG_VCO -> set_vco(S, u128_as_u16(val))
      [] idx = REG_VCC -> set_vcc(S, u128_as_u16(val))
      [] idx = REG_VCE -> set_vce(S, u128_as_u16(val))
      [] idx = REG_ACCUM_LO -> [S EXCEPT !.accum[0] = LittleEndian_write_u128(val)]
      [] idx = REG_ACCUM_MD -> [S EXCEPT !.accum[1] = LittleEndian_write_u128(val)]
      [] idx = REG_ACCUM_HI -> [S EXCEPT !.accum[2] = LittleEndian_write_u128(val)]
      [] idx < NumVregs -> [S EXCEPT !.vregs[idx] = LittleEndian_write_u128(val)]
      [] OTHER -> Panic(S)

\* The result r of a register blit put back into register vt, or the panic.
put_reg(S, vt, r) ==
    IF r.panic THEN Panic(S) ELSE [S EXCEPT !.vregs[vt] = r.dst]

lwc_LQV(S, f, checks) ==
    LET a == effective_address(f.base, f.offset * 16, checks)
        qw_start == a.ea - (a.ea % 16)
        ea_idx == a.ea % 16
        m == u128_shl(BigEndian_read_u128(slice16(S.dmem, qw_start)), ea_idx * 8)
    IN  IF a.panic THEN Panic(S)
        ELSE put_reg(S, f.vt,
               write_partial_right("LittleEndian", S.vregs[f.vt], m, f.element * 8, 128, checks))

lwc_LRV(S, f, checks) ==
    LET a == effective_address(f.base, f.offset * 16, checks)
        qw_start == a.ea - (a.ea % 16)
        ea_idx == a.ea % 16
        m == BigEndian_read_u128(slice16(S.dmem, qw_start))
        sh == (16 - ea_idx) + f.element
    IN  IF a.panic THEN Panic(S)
        ELSE put_reg(S, f.vt,
               write_partial_right("LittleEndian", S.vregs[f.vt], m, sh * 8, 128, checks))

\* The loop of LTV from its iteration i on: e = 7 - i at the top of the body.
\* The eighth "e -= 1" takes e below zero.
RECURSIVE lwc_LTV_loop(_, _, _, _, _, _)
lwc_LTV_loop(S, vtbase, vtoff, m, i, checks) ==
    IF i = 8 THEN S
    ELSE LET e == 7 - i
             S1 == [S EXCEPT !.vregs[vtbase + vtoff] =
                       LittleEndian_write_u16(@, e * 2, u128_as_u16(u128_shr(m, 128 - 16)))]
         IN  IF e = 0 /\ checks THEN Panic(S1)
             ELSE lwc_LTV_loop(S1, vtbase, (vtoff + 1) % 8, u128_shl(m, 16), i + 1, checks)

lwc_LTV(S, f, checks) ==
    LET a == effective_address(f.base, f.offset, checks)
        qw_start == a.ea - (a.ea % 8)
        m == u128_rotate_left(BigEndian_read_u128(slice16(S.dmem, qw_start)),
                              (f.element + bitand(a.ea, 8)) * 8)
    IN  IF a.panic \/ qw_start + 16 > DmemSize THEN Panic(S)
        ELSE lwc_LTV_loop(S, f.vt - (f.vt % 8), f.element \div 2, m, 0, checks)

lwc(S, op, checks) ==
    LET f == oploadstore(op, S.regs)
    IN  CASE f.opcode \in 0..3 ->
               put_reg(S, f.vt,
                 lxv(f.opcode, S.vregs[f.vt], f.element, S.dmem, f.base, f.offset, checks))
          [] f.opcode = 4 -> lwc_LQV(S, f, checks)
          [] f.opcode = 5 -> lwc_LRV(S, f, checks)
          [] f.opcode = 11 -> lwc_LTV(S, f, checks)
          [] OTHER -> Panic(S)

swc_SQV(S, f, checks) ==
    LET a == effective_address(f.base, f.offset * 16, checks)
        qw_start == a.ea - (a.ea % 16)
        ea_idx == a.ea % 16
        r == u128_rotate_left(LittleEndian_read_u128(S.vregs[f.vt]), f.element * 8)
        w == write_partial_right("BigEndian", slice16(S.dmem, qw_start), r, ea_idx * 8, 128, checks)
    IN  IF a.panic \/ w.panic THEN Panic(S)
        ELSE [S EXCEPT !.dmem = with_slice16(@, qw_start, w.dst)]

swc_SRV(S, f, checks) ==
    LET a == effective_address(f.base, f.offset * 16, checks)
        qw_start == a.ea - (a.ea % 16)
        ea_idx == a.ea % 16
        r == u128_rotate_left(LittleEndian_read_u128(S.vregs[f.vt]), f.element * 8)
    IN  IF a.panic THEN Panic(S)
        ELSE [S EXCEPT !.dmem = with_slice16(@, qw_start,
                 write_partial_left("BigEndian", slice16(S.dmem, qw_start), r, (16 - ea_idx) * 8))]

swc(S, op, checks) ==
    LET f == oploadstore(op, S.regs)
        x == sxv(f.opcode, S.dmem, f.base, f.offset, S.vregs[f.vt], f.element, checks)
    IN  CASE f.opcode \in 0..3 -> IF x.panic THEN Panic(S) ELSE [S EXCEPT !.dmem = x.mem]
          [] f.opcode = 4 -> swc_SQV(S, f, checks)
          [] f.opcode = 5 -> swc_SRV(S, f, checks)
          [] OTHER -> Panic(S)

(***************************************************************************)
(* Natural numbers of any size, as the sequence of their bits, least       *)
(* significant first and without leading zeros (0 is the empty sequence):  *)
(* f64 significands and 64-bit integers do not fit the integers of the     *)
(* model checker.  Every recurrence over the bits splits its range in two  *)
(* halves, so that its evaluation nests only a few levels deep.            *)
(***************************************************************************)
\* e, once x has its value (an operator's arguments are evaluated on demand)
After(x, e) == IF x = x THEN e ELSE e

\* the index of the highest 1 of a[lo..hi], or 0
RECURSIVE bn_top(_, _, _)
bn_top(a, lo, hi) ==
    IF lo > hi THEN 0
    ELSE IF lo = hi THEN (IF a[lo] = 1 THEN lo ELSE 0)
    ELSE LET mid == (lo + hi) \div 2
             h == bn_top(a, mid + 1, hi)
         IN  IF h # 0 THEN h ELSE bn_top(a, lo, mid)
bn_trim(a) == SubSeq(a, 1, bn_top(a, 1, Len(a)))

bn_from_int(n) == bn_trim([i \in 1..31 |-> (n \div (2 ^ (i - 1))) % 2])

RECURSIVE bn_to_int_range(_, _, _)
bn_to_int_range(a, lo, hi) ==
    IF lo > hi THEN 0
    ELSE IF lo = hi THEN a[lo]
    ELSE LET mid == (lo + hi) \div 2
         IN  bn_to_int_range(a, lo, mid)
                 + (2 ^ (mid + 1 - lo)) * bn_to_int_range(a, mid + 1, hi)
bn_to_int(a) == bn_to_int_range(a, 1, Len(a))

bn_bit(a, i) == IF i >= 0 /\ i < Len(a) THEN a[i + 1] ELSE 0
bn_zeros(k) == [i \in 1..k |-> 0]
bn_shl(a, k) == IF a = <<>> THEN a ELSE bn_zeros(k) \o a
bn_shr(a, k) == IF k >= Len(a) THEN <<>> ELSE SubSeq(a, k + 1, Len(a))
\* the low k bits of a
bn_low(a, k) == bn_trim(IF k >= Len(a) THEN a ELSE SubSeq(a, 1, k))

\* -1, 0, 1 as a < b, a = b, a > b
RECURSIVE bn_cmp_range(_, _, _, _)
bn_cmp_range(a, b, lo, hi) ==
    IF lo > hi THEN 0
    ELSE IF lo = hi
         THEN (IF a[lo] = b[lo] THEN 0 ELSE IF a[lo] > b[lo] THEN 1 ELSE -1)
    ELSE LET mid == (lo + hi) \div 2
             h == bn_cmp_range(a, b, mid + 1, hi)
         IN  IF h # 0 THEN h ELSE bn_cmp_range(a, b, lo, mid)
bn_cmp(a, b) ==
    IF Len(a) # Len(b) THEN (IF Len(a) > Len(b) THEN 1 ELSE -1)
    ELSE bn_cmp_range(a, b, 1, Len(a))

\* bits lo..hi (counted from 0) of a + b + carry, and the carry out
RECURSIVE bn_add_range(_, _, _, _, _)
bn_add_range(a, b, lo, hi, carry) ==
    IF lo > hi THEN [bits |-> <<>>, carry |-> carry]
    ELSE IF lo = hi
         THEN LET t == bn_bit(a, lo) + bn_bit(b, lo) + carry
              IN  [bits |-> <<t % 2>>, carry |-> t \div 2]
    ELSE LET mid == (lo + hi) \div 2
             low == bn_add_range(a, b, lo, mid, carry)
         IN  After(low,
                 LET high == bn_add_range(a, b, mid + 1, hi, low.carry)
                 IN  [bits |-> low.bits \o high.bits, carry |-> high.carry])
bn_add(a, b) ==
    LET n == IF Len(a) > Len(b) THEN Len(a) ELSE Len(b)
        s == bn_add_range(a, b, 0, n - 1, 0)
    IN  IF s.carry = 1 THEN s.bits \o <<1>> ELSE s.bits

\* bits lo..hi of a - b - borrow, and the borrow out
RECURSIVE bn_sub_range(_, _, _, _, _)
bn_sub_range(a, b, lo, hi, borrow) ==
    IF lo > hi THEN [bits |-> <<>>, borrow |-> borrow]
    ELSE IF lo = hi
         THEN LET t == bn_bit(a, lo) - bn_bit(b, lo) - borrow
              IN  [bits |-> <<t % 2>>, borrow |-> IF t < 0 THEN 1 ELSE 0]
    ELSE LET mid == (lo + hi) \div 2
             low == bn_sub_range(a, b, lo, mid, borrow)
         IN  After(low,
                 LET high == bn_sub_range(a, b, mid + 1, hi, low.borrow)
                 IN  [bits |-> low.bits \o high.bits, borrow |-> high.borrow])
\* a - b for a >= b
bn_sub(a, b) == bn_trim(bn_sub_range(a, b, 0, Len(a) - 1, 0).bits)

\* the sum of b * 2^(i-1) over the 1 bits a[i], i in lo..hi
RECURSIVE bn_mul_range(_, _, _, _)
bn_mul_range(a, b, lo, hi) ==
    IF lo > hi THEN <<>>
    ELSE IF lo = hi THEN (IF a[lo] = 1 THEN bn_shl(b, lo - 1) ELSE <<>>)
    ELSE LET mid == (lo + hi) \div 2
             low == bn_mul_range(a, b, lo, mid)
         IN  After(low, bn_add(low, bn_mul_range(a, b, mid + 1, hi)))
bn_mul(a, b) == bn_mul_range(a, b, 1, Len(a))

\* Long division by b # 0 of the number r * 2^(hi-lo+1) + a[lo..hi]: the
\* hi-lo+1 quotient bits it produces and the remainder.
RECURSIVE bn_divmod_range(_, _, _, _, _)
bn_divmod_range(a, b, lo, hi, r) ==
    IF lo > hi THEN [q |-> <<>>, r |-> r]
    ELSE IF lo = hi
         THEN LET r1 == bn_trim(<<a[lo]>> \o r)
              IN  IF bn_cmp(r1, b) >= 0
                  THEN [q |-> <<1>>, r |-> bn_sub(r1, b)]
                  ELSE [q |-> <<0>>, r |-> r1]
    ELSE LET mid == (lo + hi) \div 2
             high == bn_divmod_range(a, b, mid + 1, hi, r)
         IN  After(high,
                 LET low == bn_divmod_range(a, b, lo, mid, high.r)
                 IN  [q |-> low.q \o high.q, r |-> low.r])
bn_divmod(a, b) ==
    LET d == bn_divmod_range(a, b, 1, Len(a), <<>>)
    IN  [q |-> bn_trim(d.q), r |-> d.r]

\* The integer square root of a, two bits of a at a time from the top:
\* steps lo..hi from the root and remainder s reached so far.
RECURSIVE bn_sqrt_range(_, _, _, _)
bn_sqrt_range(a, lo, hi, s) ==
    IF lo > hi THEN s
    ELSE IF lo = hi
         THEN LET r1 == bn_trim(<<bn_bit(a, 2 * lo - 2), bn_bit(a, 2 * lo - 1)>>
                                    \o s.r)
                  t == bn_trim(<<1, 0>> \o s.q)
              IN  IF bn_cmp(r1, t) >= 0
                  THEN [q |-> bn_trim(<<1>> \o s.q), r |-> bn_sub(r1, t)]
                  ELSE [q |-> bn_trim(<<0>> \o s.q), r |-> r1]
    ELSE LET mid == (lo + hi) \div 2
             high == bn_sqrt_range(a, mid + 1, hi, s)
         IN  After(high, bn_sqrt_range(a, lo, mid, high))
\* the root and the remainder a - root^2
bn_sqrt(a) ==
    bn_sqrt_range(a, 1, (Len(a) + 1) \div 2, [q |-> <<>>, r |-> <<>>])

(***************************************************************************)
(* IEEE-754 binary32 and binary64, the f32 and f64 of cop1.rs.  A format   *)
(* is its width w, its precision p (with the hidden bit) and its largest   *)
(* exponent emax.  A float is a record: cls is "nan", "inf" or "fin"; a    *)
(* finite float is (-1)^sign * sig * 2^exp with sig a natural number of at *)
(* most p bits, of exactly p bits unless the float is zero or subnormal,   *)
(* in which case exp is the smallest quantum exponent; the sig of a NaN is *)
(* its payload.  Arithmetic rounds to nearest, ties to even, the default   *)
(* mode of the host.                                                       *)
(***************************************************************************)
F32 == [w |-> 32, p |-> 24, emax |-> 127]
F64 == [w |-> 64, p |-> 53, emax |-> 1023]

F_qmin(fmt) == 2 - fmt.emax - fmt.p
F_expbits(fmt) == fmt.w - fmt.p

F_fin(sign, sig, exp) == [cls |-> "fin", sign |-> sign, sig |-> sig, exp |-> exp]
F_inf(sign) == [cls |-> "inf", sign |-> sign, sig |-> <<>>, exp |-> 0]
F_nan(sign, payload) == [cls |-> "nan", sign |-> sign, sig |-> payload, exp |-> 0]
F_zero(fmt, sign) == F_fin(sign, <<>>, F_qmin(fmt))
F_iszero(x) == x.cls = "fin" /\ x.sig = <<>>

\* a padded with zeros to exactly k bits
bn_pad(a, k) == a \o bn_zeros(k - Len(a))

\* f32::from_bits / f64::from_bits on the w bits b (least significant first)
F_from_bits(fmt, b) ==
    LET m == bn_trim(SubSeq(b, 1, fmt.p - 1))
        e == bn_to_int(SubSeq(b, fmt.p, fmt.w - 1))
        s == b[fmt.w]
    IN  IF e = 2 * fmt.emax + 1
        THEN (IF m = <<>> THEN F_inf(s) ELSE F_nan(s, m))
        ELSE IF e = 0 THEN F_fin(s, m, F_qmin(fmt))
        ELSE F_fin(s, bn_pad(m, fmt.p - 1) \o <<1>>, e - fmt.emax - (fmt.p - 1))

\* f32::to_bits / f64::to_bits: the w bits of x
F_to_bits(fmt, x) ==
    LET ones == [i \in 1..F_expbits(fmt) |-> 1]
    IN  CASE x.cls = "inf" -> bn_zeros(fmt.p - 1) \o ones \o <<x.sign>>
          [] x.cls = "nan" -> bn_pad(x.sig, fmt.p - 1) \o ones \o <<x.sign>>
          [] OTHER ->
               LET e == IF Len(x.sig) = fmt.p THEN x.exp + fmt.emax + (fmt.p - 1) ELSE 0
               IN  bn_pad(bn_low(x.sig, fmt.p - 1), fmt.p - 1)
                       \o bn_pad(bn_from_int(e), F_expbits(fmt)) \o <<x.sign>>

\* The float of the format nearest to (-1)^sign * (sig * 2^exp + d), where
\* 0 < d < 2^exp if sticky and d = 0 if not, ties to even.  With sticky, sig
\* has at least p + 2 bits.
F_round_pack(fmt, sign, sig, exp, sticky) ==
    IF sig = <<>> THEN F_zero(fmt, sign)
    ELSE
    LET over == Len(sig) - fmt.p
        under == F_qmin(fmt) - exp
        shift == IF over >= under THEN over ELSE under
        kept == IF shift > 0 THEN bn_shr(sig, shift) ELSE bn_shl(sig, 0 - shift)
        half == shift > 0 /\ bn_bit(sig, shift - 1) = 1
        rest == sticky \/ (shift > 1 /\ bn_low(sig, shift - 1) # <<>>)
        up == half /\ (rest \/ bn_bit(kept, 0) = 1)
        r0 == IF up THEN bn_add(kept, <<1>>) ELSE kept
        carried == Len(r0) > fmt.p
        r == IF carried THEN bn_shr(r0, 1) ELSE r0
        e == IF carried THEN exp + shift + 1 ELSE exp + shift
    IN  IF Len(r) = fmt.p /\ e > fmt.emax - (fmt.p - 1) THEN F_inf(sign)
        ELSE F_fin(sign, r, e)

F_neg(x) == [x EXCEPT !.sign = 1 - @]
F_abs(x) == [x EXCEPT !.sign = 0]

\* x == y, x < y of the language (false on NaN, -0 equal to +0)
F_eq(x, y) ==
    /\ x.cls # "nan" /\ y.cls # "nan"
    /\ \/ F_iszero(x) /\ F_iszero(y)
       \/ x = y

\* Finite x and y as integers at a common quantum: x = a * 2^e, y = b * 2^e.
\* An operand below an eighth of the other's quantum is replaced by a
\* sixteenth of it, which rounds the same way.
F_align(fmt, x, y) ==
    LET far == fmt.p + 4
        y1 == IF x.sig # <<>> /\ y.sig # <<>> /\ y.exp + far <= x.exp
              THEN F_fin(y.sign, <<1>>, x.exp - 4) ELSE y
        x1 == IF x.sig # <<>> /\ y.sig # <<>> /\ x.exp + far <= y.exp
              THEN F_fin(x.sign, <<1>>, y.exp - 4) ELSE x
        e == IF x1.exp <= y1.exp THEN x1.exp ELSE y1.exp
    IN  [a |-> bn_shl(x1.sig, x1.exp - e), b |-> bn_shl(y1.sig, y1.exp - e), e |-> e]

\* x + y; nan is the NaN the host produces when the result is a NaN
F_add(fmt, x, y, nan) ==
    CASE x.cls = "nan" \/ y.cls = "nan" -> nan
      [] x.cls = "inf" /\ y.cls = "inf" -> IF x.sign = y.sign THEN x ELSE nan
      [] x.cls = "inf" -> x
      [] y.cls = "inf" -> y
      [] OTHER ->
           LET al == F_align(fmt, x, y)
               c == bn_cmp(al.a, al.b)
           IN  IF x.sign = y.sign
               THEN F_round_pack(fmt, x.sign, bn_add(al.a, al.b), al.e, FALSE)
               ELSE IF c = 0 THEN F_zero(fmt, 0)
               ELSE IF c > 0 THEN F_round_pack(fmt, x.sign, bn_sub(al.a, al.b), al.e, FALSE)
               ELSE F_round_pack(fmt, y.sign, bn_sub(al.b, al.a), al.e, FALSE)

F_sub(fmt, x, y, nan) == F_add(fmt, x, IF y.cls = "nan" THEN y ELSE F_neg(y), nan)

F_mul(fmt, x, y, nan) ==
    LET s == (x.sign + y.sign) % 2
    IN  CASE x.cls = "nan" \/ y.cls = "nan" -> nan
          [] x.cls = "inf" -> IF F_iszero(y) THEN nan ELSE F_inf(s)
          [] y.cls = "inf" -> IF F_iszero(x) THEN nan ELSE F_inf(s)
          [] OTHER -> F_round_pack(fmt, s, bn_mul(x.sig, y.sig), x.exp + y.exp, FALSE)

F_div(fmt, x, y, nan) ==
    LET s == (x.sign + y.sign) % 2
    IN  CASE x.cls = "nan" \/ y.cls = "nan" -> nan
          [] x.cls = "inf" -> IF y.cls = "inf" THEN nan ELSE F_inf(s)
          [] y.cls = "inf" -> F_zero(fmt, s)
          [] F_iszero(y) -> IF F_iszero(x) THEN nan ELSE F_inf(s)
          [] F_iszero(x) -> F_zero(fmt, s)
          [] OTHER ->
               LET k == 2 * fmt.p + 3
                   d == bn_divmod(bn_shl(x.sig, k), y.sig)
               IN  F_round_pack(fmt, s, d.q, x.exp - y.exp - k, d.r # <<>>)

F_sqrt(fmt, x, nan) ==
    CASE x.cls = "nan" -> nan
      [] F_iszero(x) -> x
      [] x.sign = 1 -> nan
      [] x.cls = "inf" -> x
      [] OTHER ->
           LET k == 2 * fmt.p + 4 + ((x.exp + 2 * (fmt.emax + fmt.p)) % 2)
               d == bn_sqrt(bn_shl(x.sig, k))
           IN  F_round_pack(fmt, 0, d.q, (x.exp - k) \div 2, d.r # <<>>)

\* round (halves away from zero), trunc, ceil, floor: mode names the method
F_to_integral(fmt, x, mode) ==
    IF x.cls # "fin" \/ x.exp >= 0 \/ x.sig = <<>> THEN x
    ELSE LET int == bn_shr(x.sig, 0 - x.exp)
             frac == bn_low(x.sig, 0 - x.exp) # <<>>
             half == bn_bit(x.sig, (0 - x.exp) - 1) = 1
             up == CASE mode = "round" -> half
                     [] mode = "trunc" -> FALSE
                     [] mode = "ceil" -> frac /\ x.sign = 0
                     [] OTHER -> frac /\ x.sign = 1
         IN  F_round_pack(fmt, x.sign, IF up THEN bn_add(int, <<1>>) ELSE int, 0, FALSE)

F_half(fmt) == F_fin(0, bn_shl(<<1>>, fmt.p - 1), 0 - fmt.p)
F_two(fmt) == F_fin(0, bn_shl(<<1>>, fmt.p - 1), 2 - fmt.p)


(***************************************************************************)
(* COP1, src/src/mips64/cop1.rs.  The register file is a function 0..31 -> *)
(* u64.  What the host leaves open is a set of outcomes: the bits of a NaN *)
(* result, and the conversion to an integer of a float equal to 2^(N-1)    *)
(* where the library compares against a limit that is not a float.         *)
(***************************************************************************)
\* the 64 bits of a u64, least significant first
u64_bits(x) == [i \in 1..64 |-> (x[3 - ((i - 1) \div 16)] \div pow2((i - 1) % 16)) % 2]
\* the u64 of at most 64 bits
bits_u64(b) ==
    LET full == bn_pad(b, 64)
    IN  [w \in 0..3 |-> bn_to_int(SubSeq(full, 16 * (3 - w) + 1, 16 * (3 - w) + 16))]

\* FloatRawConvert::from_u64bits
from_u64bits(fmt, v) ==
    IF fmt.w = 32 THEN F_from_bits(fmt, SubSeq(u64_bits(v), 1, 32))
    ELSE F_from_bits(fmt, u64_bits(v))

\* FloatRawConvert::to_u64bits
to_u64bits(fmt, x) == bits_u64(F_to_bits(fmt, x))

\* the NaN a host operation returns when no operand tells which
F_default_nan(fmt) == F_nan(0, bn_shl(<<1>>, fmt.p - 2))

\* FloatRawConvert::bankers_round with every half rounded away from zero
bankers_round_away(fmt, x) ==
    F_to_integral(fmt, x, "round")

\* FloatRawConvert::bankers_round
bankers_round(fmt, x) ==
    LET nan == F_default_nan(fmt)
        y == F_to_integral(fmt, x, "round")
    IN  IF F_eq(F_abs(F_sub(fmt, x, y, nan)), F_half(fmt))
        THEN F_mul(fmt, F_to_integral(fmt, F_mul(fmt, x, F_half(fmt), nan), "round"),
                   F_two(fmt), nan)
        ELSE y

\* Option<i32>, Option<i64>: an integer is its sign and its magnitude
None == [some |-> FALSE, neg |-> 0, mag |-> <<>>]
Some(neg, mag) == [some |-> TRUE, neg |-> IF mag = <<>> THEN 0 ELSE neg, mag |-> mag]

\* Float::to_i32 (N = 32) and Float::to_i64 (N = 64) of the num crate, as the
\* set of results its versions and the compiler's cast give.  A float within
\* the range of the integer converts to it, truncated; a NaN, an infinity
\* and a float beyond the range give None.  2^(N-1) is beyond the range, but
\* where 2^(N-1) - 1 is not a float of the format a version that compares
\* with the limit converted to a float lets it through to the cast, which
\* saturates or gives the minimum.
to_int(fmt, x, N) ==
    IF x.cls # "fin" THEN {None}
    ELSE IF x.sig = <<>> THEN {Some(0, <<>>)}
    ELSE IF x.exp + Len(x.sig) > N THEN {None}
    ELSE LET mag == IF x.exp >= 0 THEN bn_shl(x.sig, x.exp)
                    ELSE bn_shr(x.sig, 0 - x.exp)
             limit == bn_shl(<<1>>, N - 1)
             c == bn_cmp(mag, limit)
         IN  IF c < 0 THEN {Some(x.sign, mag)}
             ELSE IF c > 0 THEN {None}
             ELSE IF x.sign = 1 THEN {Some(1, mag)}
             ELSE IF fmt.p >= N - 1 THEN {None}
             ELSE {None, Some(0, bn_sub(limit, <<1>>)), Some(1, limit)}

\* v as u64 of an i32 or i64 v: two's complement, the sign extended
int_as_u64(v) ==
    IF v.neg = 1 THEN bits_u64(bn_sub(bn_shl(<<1>>, 64), v.mag)) ELSE bits_u64(v.mag)

\* The results of an arithmetic operation whose IEEE result is v: v itself,
\* or if it is a NaN the NaNs a host may produce (the default NaN of either
\* sign, or an operand NaN made quiet).
host_results(fmt, v, operands) ==
    IF v.cls # "nan" THEN {v}
    ELSE {F_default_nan(fmt), F_neg(F_default_nan(fmt))}
         \cup { F_nan(o.sign, bn_pad(bn_low(o.sig, fmt.p - 2), fmt.p - 2) \o <<1>>)
                : o \in {o \in operands : o.cls = "nan"} }

\* An outcome of an instruction: the register file it leaves, and whether it
\* ended in a panic.
Done(R) == [regs |-> R, panic |-> FALSE]
Abort(R) == [regs |-> R, panic |-> TRUE]

\* Cop1::default: the register file
Cop1_default == [i \in 0..31 |-> u16_as_u64(0)]

\* approx! with the register written before the conversion is checked
approx_write_first(R, fmt, rd, rounded, N) ==
    { IF v.some THEN Done([R EXCEPT ![rd] = int_as_u64(v)])
      ELSE Abort([R EXCEPT ![rd] = u16_as_u64(0)]) : v \in to_int(fmt, rounded, N) }

\* approx!: rounded is op.fs().$round(), N the width of $size, rd the
\* register of mfd64
approx(R, fmt, rd, rounded, N) ==
    { IF v.some THEN Done([R EXCEPT ![rd] = int_as_u64(v)])
      ELSE Abort(R) : v \in to_int(fmt, rounded, N) }

\* Cop1::fop::<M>, with the accessors of Fop: the outcomes of the instruction
\* on the register file R
Cop1_fop(R, fmt, opcode) ==
    LET func == opcode % 64
        rs == (opcode \div pow2(11)) % 32
        rt == (opcode \div pow2(16)) % 32
        rd == (opcode \div pow2(6)) % 32
        fs == from_u64bits(fmt, R[rs])
        ft == from_u64bits(fmt, R[rt])
        set_fd(vs) == { Done([R EXCEPT ![rd] = to_u64bits(fmt, v)]) : v \in vs }
        nan == F_default_nan(fmt)
    IN  CASE func = 0 -> set_fd(host_results(fmt, F_add(fmt, fs, ft, nan), {fs, ft}))
          [] func = 1 -> set_fd(host_results(fmt, F_sub(fmt, fs, ft, nan), {fs, ft}))
          [] func = 2 -> set_fd(host_results(fmt, F_mul(fmt, fs, ft, nan), {fs, ft}))
          [] func = 3 -> set_fd(host_results(fmt, F_div(fmt, fs, ft, nan), {fs, ft}))
          [] func = 4 -> set_fd(host_results(fmt, F_sqrt(fmt, fs, nan), {fs}))
          [] func = 5 -> set_fd({F_abs(fs)})
          [] func = 7 -> set_fd({F_neg(fs)})
          [] func = 8 -> approx(R, fmt, rd, bankers_round(fmt, fs), 64)
          [] func = 9 -> approx(R, fmt, rd, F_to_integral(fmt, fs, "trunc"), 64)
          [] func = 10 -> approx(R, fmt, rd, F_to_integral(fmt, fs, "ceil"), 64)
          [] func = 11 -> approx(R, fmt, rd, F_to_integral(fmt, fs, "floor"), 64)
          [] func = 12 -> approx(R, fmt, rd, bankers_round(fmt, fs), 32)
          [] func = 13 -> approx(R, fmt, rd, F_to_integral(fmt, fs, "trunc"), 32)
          [] func = 14 -> approx(R, fmt, rd, F_to_integral(fmt, fs, "ceil"), 32)
          [] func = 15 -> approx(R, fmt, rd, F_to_integral(fmt, fs, "floor"), 32)
          [] OTHER -> {Abort(R)}

\* Cop1::op
Cop1_op(R, opcode) ==
    LET fmt == (opcode \div pow2(21)) % 32
    IN  CASE fmt = 16 -> Cop1_fop(R, F32, opcode)
          [] fmt = 17 -> Cop1_fop(R, F64, opcode)
          [] OTHER -> {Abort(R)}

(***************************************************************************)
(* The state machine.  last and prev are the two most recent calls, steps  *)
(* counts the calls made.  A panic ends the emulation: no call follows it. *)
(***************************************************************************)
Cur ==
    [vregs |-> vregs, accum |-> accum, vco_carry |-> vco_carry, vco_ne |-> vco_ne,
     regs |-> regs, dmem |-> dmem, panicked |-> panicked]

Commit(S) ==
    /\ vregs' = S.vregs
    /\ accum' = S.accum
    /\ vco_carry' = S.vco_carry
    /\ vco_ne' = S.vco_ne
    /\ regs' = S.regs
    /\ dmem' = S.dmem
    /\ panicked' = S.panicked
    /\ UNCHANGED cop1_regs

Call(kind, op, idx, val) == [kind |-> kind, op |-> op, idx |-> idx, val |-> val]
NoCall == Call("none", 0, 0, u128_zero)

Record(c) ==
    /\ last' = c
    /\ prev' = last
    /\ steps' = steps + 1
    /\ UNCHANGED overflow_checks

\* Cop::op
Cop_op(bound, op, kern) ==
    /\ ~panicked
    /\ steps < bound
    /\ Commit(uop(Cur, op, kern))
    /\ Record(Call("op", op, 0, u128_zero))

\* Cop::lwc
Cop_lwc(bound, op) ==
    /\ ~panicked
    /\ steps < bound
    /\ Commit(lwc(Cur, op, overflow_checks))
    /\ Record(Call("lwc", op, 0, u128_zero))

\* Cop::swc
Cop_swc(bound, op) ==
    /\ ~panicked
    /\ steps < bound
    /\ Commit(swc(Cur, op, overflow_checks))
    /\ Record(Call("swc", op, 0, u128_zero))

\* Cop::set_reg
Cop_set_reg(bound, idx, val) ==
    /\ ~panicked
    /\ steps < bound
    /\ Commit(set_reg(Cur, idx, val))
    /\ Record(Call("set_reg", 0, idx, val))

\* Cop1::op, called by the CPU with the instruction word
Cpu_cop1(bound, opcode) ==
    /\ ~panicked
    /\ steps < bound
    /\ \E out \in Cop1_op(cop1_regs, opcode) :
           /\ cop1_regs' = out.regs
           /\ panicked' = out.panic
    /\ UNCHANGED <<vregs, accum, vco_carry, vco_ne, regs, dmem>>
    /\ Record(Call("cop1", opcode, 0, u128_zero))

(***************************************************************************)
(* Instruction words (bits 25..0).                                         *)
(***************************************************************************)
VU(e, vt, vs, vd, func) ==
    pow2(25) + e * pow2(21) + vt * pow2(16) + vs * pow2(11) + vd * pow2(6) + func
CFC2(rt, rs) == 2 * pow2(21) + rt * pow2(16) + rs * pow2(11)
CTC2(rt, rs) == 6 * pow2(21) + rt * pow2(16) + rs * pow2(11)
LS(base, vt, opcode, element, offset) ==
    base * pow2(21) + vt * pow2(16) + opcode * pow2(11) + element * pow2(7) + offset

(***************************************************************************)
(* Values the specifications draw their inputs from.                       *)
(***************************************************************************)
\* a register value given by its eight architectural lanes, lane 0 first
FromLanes(l) == [k \in 0..15 |-> IF k % 2 = 0 THEN l[(k \div 2) + 1] \div 256
                                  ELSE l[(k \div 2) + 1] % 256]

LanesA == <<32768, 32767, 65535, 0, 1, 32769, 32766, 4660>>
LanesB == <<32768, 32767, 65535, 1, 2, 65534, 16384, 49152>>
ValA == FromLanes(LanesA)
ValB == FromLanes(LanesB)
\* sixteen distinct non-zero bytes
ValC == [k \in 0..15 |-> 160 + k]

u64_of(w0, w1, w2, w3) == [w \in 0..3 |-> <<w0, w1, w2, w3>>[w + 1]]

\* SpCop2::new, with the CPU registers and the DMEM contents it runs against
new(ctxregs, mem) ==
    [vregs |-> [i \in 0..NumVregs - 1 |-> [k \in 0..15 |-> 0]],
     accum |-> [i \in 0..2 |-> [k \in 0..15 |-> 0]],
     vco_carry |-> [k \in 0..15 |-> 0],
     vco_ne |-> [k \in 0..15 |-> 0],
     regs |-> ctxregs, dmem |-> mem, panicked |-> FALSE]

\* DMEM contents: every byte non-zero, no byte repeated within 16 bytes
DmemPattern(n) == [a \in 0..DmemSize - 1 |-> ((a * 7 + 3 + 100 * n) % 251) + 1]

\* CPU registers: r0 = 0 and r1..r7 as given, the others 0
GprFile(r) == [i \in 0..31 |-> IF i \in 1..Len(r) THEN r[i] ELSE u64_of(0, 0, 0, 0)]

InitFrom(S, checks) ==
    /\ vregs = S.vregs
    /\ accum = S.accum
    /\ vco_carry = S.vco_carry
    /\ vco_ne = S.vco_ne
    /\ regs = S.regs
    /\ dmem = S.dmem
    /\ cop1_regs = Cop1_default
    /\ panicked = S.panicked
    /\ overflow_checks = checks
    /\ last = NoCall
    /\ prev = NoCall
    /\ steps = 0

\* What a vmul kernel may return: the kernels are opaque here, so a call
\* returns any of these quadruples.
VmulOutcomes ==
    { [res |-> mm_loadu_si128(LittleEndian_write_u128(r)),
       acc_lo |-> mm_loadu_si128(LittleEndian_write_u128(lo)),
       acc_md |-> mm_loadu_si128(LittleEndian_write_u128(ValC)),
       acc_hi |-> mm_loadu_si128(LittleEndian_write_u128(lo))]
      : r \in {ValA}, lo \in {ValA, ValB} }

NoKernel == [res |-> mm_setzero_si128, acc_lo |-> mm_setzero_si128,
             acc_md |-> mm_setzero_si128, acc_hi |-> mm_setzero_si128]

\* The kernel results a VU instruction can meet: only a multiply calls one.
KernelsFor(op) ==
    IF (op \div pow2(25)) % 2 = 1 /\ Vectorop_func(op) \in VmulFuncs
    THEN VmulOutcomes ELSE {NoKernel}

(***************************************************************************)
(* Spec: the coprocessor from construction, under any sequence of at most  *)
(* MaxSteps calls of op, lwc, swc and set_reg drawn from the sets below.   *)
(***************************************************************************)
MaxSteps == 2

\* r1 = 0x20, r2 = 0x23, r3 = 0xFFFF_FFFF_FFFF_A5C3, r4 = 0xFFFF_FFFF_FFFF_FFF8
MainGprs ==
    GprFile(<<u64_of(0, 0, 0, 32), u64_of(0, 0, 0, 35),
              u64_of(65535, 65535, 65535, 42435), u64_of(65535, 65535, 65535, 65528)>>)

MainOps ==
    { VU(0, 2, 1, 3, 16), VU(9, 2, 1, 3, 20), VU(8, 0, 0, 4, 29), VU(3, 0, 0, 4, 29),
      VU(0, 2, 1, 3, 40), VU(0, 2, 1, 3, 0), VU(0, 2, 1, 3, 63),
      CFC2(5, 0), CFC2(5, 1), CFC2(5, 2), CFC2(5, 3),
      CTC2(3, 0), CTC2(3, 1), CTC2(3, 2), CTC2(3, 3), 0 }

MainLoads ==
    { LS(1, 1, 0, 3, 1), LS(4, 1, 3, 0, 0), LS(2, 1, 4, 0, 0), LS(2, 1, 5, 0, 1),
      LS(1, 8, 11, 2, 0), LS(1, 1, 6, 0, 0) }

MainStores ==
    { LS(1, 1, 0, 3, 1), LS(4, 1, 3, 0, 0), LS(1, 1, 4, 0, 0), LS(2, 2, 5, 0, 0),
      LS(1, 1, 6, 0, 0) }

MainSetRegs ==
    { <<1, ValA>>, <<2, ValB>>, <<REG_VCO, ValA>>, <<REG_VCC, ValA>>,
      <<REG_ACCUM_LO, ValC>>, <<38, ValA>> }

Init == \E checks \in BOOLEAN : InitFrom(new(MainGprs, DmemPattern(0)), checks)

Next ==
    \/ \E op \in MainOps : \E kern \in KernelsFor(op) : Cop_op(MaxSteps, op, kern)
    \/ \E op \in MainLoads : Cop_lwc(MaxSteps, op)
    \/ \E op \in MainStores : Cop_swc(MaxSteps, op)
    \/ \E c \in MainSetRegs : Cop_set_reg(MaxSteps, c[1], c[2])

Spec == Init /\ [][Next]_vars

(***************************************************************************)
(* SpecVU: the VU compute instructions and CFC2/CTC2 applied to a register *)
(* file that set_reg has filled (v1 = ValA, v2 = ValB, the accumulator     *)
(* slices) and to flags that set_vco has set.                              *)
(***************************************************************************)
MaxStepsSingle == 1

VUFlagPresets == {0, 65535, 42330}

VUStart(flags) ==
    set_vco(
      set_reg(set_reg(set_reg(set_reg(set_reg(new(MainGprs, DmemPattern(0)),
        1, ValA), 2, ValB), REG_ACCUM_LO, ValC), REG_ACCUM_MD, ValB), REG_ACCUM_HI, ValA),
      flags)

VUOps ==
    { VU(e, r[1], r[2], r[3], f) :
        e \in 0..15, r \in {<<2, 1, 3>>, <<1, 2, 3>>, <<1, 1, 1>>}, f \in {16, 20} }
    \cup { VU(e, 0, 0, 4, 29) : e \in {0, 1, 2, 3, 8, 9, 10} }
    \cup { VU(2, 2, 1, 3, f) : f \in 40..45 }
    \cup { VU(0, 2, 1, 3, 0), VU(0, 2, 1, 3, 13), VU(0, 2, 1, 3, 63) }
    \cup { CFC2(5, 0), CFC2(5, 1), CTC2(3, 0), CTC2(3, 1), 0 }

InitVU ==
    \E flags \in VUFlagPresets : \E checks \in BOOLEAN : InitFrom(VUStart(flags), checks)

NextVU == \E op \in VUOps : \E kern \in KernelsFor(op) : Cop_op(MaxStepsSingle, op, kern)

SpecVU == InitVU /\ [][NextVU]_vars

(***************************************************************************)
(* SpecSub: the sub-word loads LBV, LSV, LLV, LDV with every element,      *)
(* into a register that holds ValC.  r1 = 0x20 is used with offset 1, and  *)
(* r5 = 0xFFD reaches the last bytes of DMEM.                              *)
(***************************************************************************)
SubGprs ==
    GprFile(<<u64_of(0, 0, 0, 32), u64_of(0, 0, 0, 35),
              u64_of(65535, 65535, 65535, 42435), u64_of(65535, 65535, 65535, 65528),
              u64_of(0, 0, 0, 4093)>>)

SubOps ==
    { LS(b[1], 1, opcode, element, b[2]) :
        b \in {<<1, 1>>, <<5, 0>>}, opcode \in 0..3, element \in 0..15 }

InitSub ==
    \E n \in {0, 1} : \E checks \in BOOLEAN :
        InitFrom(set_reg(set_reg(new(SubGprs, DmemPattern(n)), 1, ValC), 2, ValA), checks)

NextSub == \E op \in SubOps : Cop_lwc(MaxStepsSingle, op)

SpecSub == InitSub /\ [][NextSub]_vars

(***************************************************************************)
(* SpecQuad: SQV and LQV at a 16-byte-aligned address (r1 = 0x20 or 0xFF0) *)
(* with every element; v1 holds ValC and v2 holds ValA.                    *)
(***************************************************************************)
QuadBases == {32, 4080}

QuadStores == { LS(1, 1, 4, element, 0) : element \in 0..15 }
QuadLoads == { LS(1, 1, 4, element, 0) : element \in 0..15 } \cup { LS(1, 2, 4, 0, 0) }

InitQuad ==
    \E b \in QuadBases : \E checks \in BOOLEAN :
        InitFrom(set_reg(set_reg(new(GprFile(<<u64_of(0, 0, 0, b)>>), DmemPattern(0)),
                                 1, ValC), 2, ValA), checks)

NextQuad ==
    \/ \E op \in QuadStores : Cop_swc(MaxSteps, op)
    \/ \E op \in QuadLoads : Cop_lwc(MaxSteps, op)

SpecQuad == InitQuad /\ [][NextQuad]_vars

(***************************************************************************)
(* SpecPart: LQV and LRV at the addresses r1 and r1 + 16, for every        *)
(* position of r1 within its quadword and for r1 in the last quadword of   *)
(* DMEM; v1 holds ValC and v2 holds ValA.                                  *)
(***************************************************************************)
PartBases == { 32 + k : k \in 0..15 } \cup { 4085, 3, 65535 }

PartLoads ==
    { LS(1, 2, 4, 0, 0), LS(1, 2, 5, 0, 1), LS(1, 2, 5, 0, 0),
      LS(1, 1, 4, 0, 0), LS(1, 1, 4, 5, 0), LS(1, 1, 5, 3, 1) }

InitPart ==
    \E b \in PartBases : \E n \in {0, 1} : \E checks \in BOOLEAN :
        InitFrom(set_reg(set_reg(new(GprFile(<<u64_of(0, 0, 65535, b)>>), DmemPattern(n)),
                                 1, ValC), 2, ValA), checks)

NextPart == \E op \in PartLoads : Cop_lwc(MaxSteps, op)

SpecPart == InitPart /\ [][NextPart]_vars

(***************************************************************************)
(* SpecSar: VSAR with every e, after the instructions that write the       *)
(* accumulator (two multiply kernels, VADD, VAND), on a coprocessor whose  *)
(* registers, accumulator and flags hold values.                           *)
(***************************************************************************)
SarOps ==
    { VU(e, 2, 1, 3, 29) : e \in 0..15 }
        \cup { VU(0, 2, 1, 3, 0), VU(0, 2, 1, 3, 8), VU(0, 2, 1, 3, 16), VU(0, 2, 1, 4, 40) }

InitSar == \E checks \in BOOLEAN : InitFrom(VUStart(42330), checks)

NextSar == \E op \in SarOps : \E kern \in KernelsFor(op) : Cop_op(MaxSteps, op, kern)

SpecSar == InitSar /\ [][NextSar]_vars

(***************************************************************************)
(* SpecTrans: LTV with every element into both register groups, at an      *)
(* aligned address, in the upper half of a quadword, at an odd address, in *)
(* the last eight bytes of DMEM and with a base whose sum with the offset  *)
(* exceeds 32 bits; v1, v2 and v9 hold values.                             *)
(***************************************************************************)
TransOps ==
    { LS(b[1], vt, 11, element, b[2]) :
        b \in {<<1, 0>>, <<1, 8>>, <<2, 0>>, <<4, 0>>, <<4, 16>>},
        vt \in {0, 13}, element \in 0..15 }

InitTrans ==
    \E checks \in BOOLEAN :
        InitFrom(set_reg(set_reg(set_reg(new(MainGprs, DmemPattern(0)), 1, ValC), 2, ValA),
                         9, ValB), checks)

NextTrans == \E op \in TransOps : Cop_lwc(MaxStepsSingle, op)

SpecTrans == InitTrans /\ [][NextTrans]_vars

(***************************************************************************)
(* SpecEdge: every implemented load and store sub-opcode at an address in  *)
(* the middle of DMEM (r1), at its last byte (r2), with a base at the top  *)
(* of the 32-bit range (r3) and in the last eight bytes of DMEM (r4).      *)
(***************************************************************************)
EdgeGprs ==
    GprFile(<<u64_of(0, 0, 0, 32), u64_of(0, 0, 0, 4095),
              u64_of(0, 0, 65535, 65535), u64_of(0, 0, 0, 4088)>>)

LoadOpcodes == {0, 1, 2, 3, 4, 5, 11}
StoreOpcodes == {0, 1, 2, 3, 4, 5}

EdgeLoads ==
    { LS(base, 1, opcode, element, offset) :
        base \in 1..4, opcode \in LoadOpcodes, element \in {0, 5}, offset \in {0, 1} }

EdgeStores ==
    { LS(base, 1, opcode, element, offset) :
        base \in 1..4, opcode \in StoreOpcodes, element \in {0, 5}, offset \in {0, 1} }

InitEdge ==
    \E checks \in BOOLEAN :
        InitFrom(set_reg(set_reg(new(EdgeGprs, DmemPattern(0)), 1, ValC), 2, ValA), checks)

NextEdge ==
    \/ \E op \in EdgeLoads : Cop_lwc(MaxStepsSingle, op)
    \/ \E op \in EdgeStores : Cop_swc(MaxStepsSingle, op)

SpecEdge == InitEdge /\ [][NextEdge]_vars

(***************************************************************************)
(* SpecCops: one instruction of either coprocessor.  The FPU registers     *)
(* hold floats around the halves and the limits of the integer types: f32  *)
(* in registers 0..13 (the upper words of some are not zero), f64 in       *)
(* registers 16..27.  The instructions are every COP1 func on some of      *)
(* them, both formats, and COP2 instructions that complete and that do     *)
(* not, among them the formats, funcs, elements and sub-opcodes the code   *)
(* does not implement.                                                     *)
(***************************************************************************)
InitCops ==
    LET f32s == <<u64_of(0, 0, 16128, 0),          \* 0.5
                  u64_of(57005, 48879, 16320, 0),  \* 1.5
                  u64_of(0, 0, 16416, 0),          \* 2.5
                  u64_of(0, 0, 48896, 0),          \* -0.5
                  u64_of(65535, 65535, 49088, 0),  \* -1.5
                  u64_of(0, 0, 49184, 0),          \* -2.5
                  u64_of(0, 0, 19199, 65535),      \* 8388607.5
                  u64_of(0, 0, 16432, 0),          \* 2.75
                  u64_of(0, 0, 49168, 0),          \* -2.25
                  u64_of(0, 0, 16127, 65535),      \* 0.49999997
                  u64_of(0, 0, 20501, 761),        \* 1e10
                  u64_of(0, 0, 32704, 0),          \* NaN
                  u64_of(0, 0, 20224, 0),          \* 2^31
                  u64_of(0, 0, 65408, 0)>>         \* -infinity
        f64s == <<u64_of(16352, 0, 0, 0),              \* 0.5
                  u64_of(16376, 0, 0, 0),              \* 1.5
                  u64_of(16388, 0, 0, 0),              \* 2.5
                  u64_of(49156, 0, 0, 0),              \* -2.5
                  u64_of(49164, 0, 0, 0),              \* -3.5
                  u64_of(17199, 65535, 65535, 65535),  \* 2^52 - 0.5
                  u64_of(16351, 65535, 65535, 65535),  \* 0.49999999999999994
                  u64_of(16390, 0, 0, 0),              \* 2.75
                  u64_of(17376, 0, 0, 0),              \* 2^63
                  u64_of(32760, 0, 0, 0),              \* NaN
                  u64_of(16870, 23051, 49152, 0),      \* 3e9
                  u64_of(49632, 0, 16, 0)>>            \* -2147483648.5
        S == VUStart(42330)
    IN  /\ vregs = S.vregs
        /\ accum = S.accum
        /\ vco_carry = S.vco_carry
        /\ vco_ne = S.vco_ne
        /\ regs = S.regs
        /\ dmem = S.dmem
        /\ cop1_regs = [i \in 0..31 |-> IF i \in 0..13 THEN f32s[i + 1]
                                        ELSE IF i \in 16..27 THEN f64s[i - 15]
                                        ELSE u16_as_u64(0)]
        /\ panicked = FALSE
        /\ overflow_checks \in BOOLEAN
        /\ last = NoCall
        /\ prev = NoCall
        /\ steps = 0

NextCops ==
    LET FP(fmt, ft, fs, fd, func) ==
            fmt * pow2(21) + ft * pow2(16) + fs * pow2(11) + fd * pow2(6) + func
        round == { FP(16, 0, fs, 31, func) : fs \in 0..13, func \in {8, 12} }
                 \cup { FP(17, 0, fs, 31, func) : fs \in 16..27, func \in {8, 12} }
        approxs == { FP(f[1], 0, f[2], f[2], func) :
                       f \in {<<16, 5>>, <<16, 11>>, <<17, 19>>},
                       func \in {9, 10, 11, 13, 14, 15} }
        arith == { FP(f[1], f[2], f[3], 30, func) :
                     f \in {<<16, 7, 2>>, <<16, 5, 11>>, <<17, 23, 18>>},
                     func \in {0, 1, 2, 3, 4, 5, 7} }
        unimplemented == { FP(0, 0, 2, 31, 8), FP(20, 0, 2, 31, 0), FP(16, 0, 2, 31, 6),
                           FP(16, 0, 2, 31, 16), FP(17, 0, 18, 31, 63) }
        vu == { VU(3, 2, 1, 3, 29), VU(8, 2, 1, 3, 29), VU(0, 2, 1, 3, 63),
                VU(0, 2, 1, 3, 16), VU(0, 2, 1, 3, 0), 3 * pow2(21),
                CFC2(1, 3), CFC2(1, 0), CTC2(3, 0), CTC2(3, 3) }
    IN  \/ \E opcode \in round \cup approxs \cup arith \cup unimplemented :
               Cpu_cop1(MaxStepsSingle, opcode)
        \/ \E op \in vu : \E kern \in KernelsFor(op) : Cop_op(MaxStepsSingle, op, kern)
        \/ \E op \in { LS(1, 2, opcode, 0, 0) : opcode \in {0, 4, 6, 11, 31} } :
               Cop_lwc(MaxStepsSingle, op)
        \/ \E op \in { LS(1, 2, opcode, 0, 0) : opcode \in {0, 4, 7, 11} } :
               Cop_swc(MaxStepsSingle, op)

SpecCops == InitCops /\ [][NextCops]_vars

(***************************************************************************)
(* SpecReg: set_reg on every register index (38 is out of range) of a      *)
(* coprocessor whose registers, accumulator and flags hold values.         *)
(***************************************************************************)
RegIndices == 0..38

InitReg == \E checks \in BOOLEAN : InitFrom(VUStart(42330), checks)

\* The values written: three 128-bit patterns, and 16-bit values for VCO
FlagSamples == {0, 1, 128, 256, 32768, 65535, 23205}
RegValues(idx) ==
    {ValA, ValB, ValC} \cup (IF idx = REG_VCO THEN {u16_as_u128(x) : x \in FlagSamples} ELSE {})

NextReg ==
    \E idx \in RegIndices : \E val \in RegValues(idx) :
        Cop_set_reg(MaxStepsSingle, idx, val)

SpecReg == InitReg /\ [][NextReg]_vars

(***************************************************************************)
(* The architectural view the claims are stated in: lane 0 of a register   *)
(* is its most significant half-word, byte 0 its most significant byte.    *)
(***************************************************************************)
ArchLane(buf, a) == buf[14 - 2 * a] + 256 * buf[15 - 2 * a]
ArchByte(buf, b) == buf[15 - b]
Signed16(x) == IF x >= 32768 THEN x - 65536 ELSE x
Clamp16(x) == IF x > 32767 THEN 32767 ELSE IF x < -32768 THEN -32768 ELSE x
Unsigned16(x) == (x + 65536) % 65536
MinOf(x, y) == IF x <= y THEN x ELSE y
MaxOf(x, y) == IF x >= y THEN x ELSE y

\* The lane of vt that lane a of the operand vte comes from, for each e.
ElementTable ==
    <<  <<0, 1, 2, 3, 4, 5, 6, 7>>, <<0, 1, 2, 3, 4, 5, 6, 7>>,
        <<0, 0, 2, 2, 4, 4, 6, 6>>, <<1, 1, 3, 3, 5, 5, 7, 7>>,
        <<0, 0, 0, 0, 4, 4, 4, 4>>, <<1, 1, 1, 1, 5, 5, 5, 5>>,
        <<2, 2, 2, 2, 6, 6, 6, 6>>, <<3, 3, 3, 3, 7, 7, 7, 7>> >>
ElementLane(e, a) == IF e >= 8 THEN e - 8 ELSE ElementTable[e + 1][a + 1]

\* A VU compute instruction with function code f has just completed.
DidVU(c, f) == c.kind = "op" /\ (c.op \div pow2(25)) % 2 = 1 /\ c.op % 64 = f
\* The fields of the instruction word of call c
F_e(c) == (c.op \div pow2(21)) % 16
F_vt(c) == (c.op \div pow2(16)) % 32
F_vs(c) == (c.op \div pow2(11)) % 32
F_vd(c) == (c.op \div pow2(6)) % 32

\* Lane a of vs and of vte (as signed or unsigned numbers) before the step
PreVs(c, a) == ArchLane(vregs[F_vs(c)], a)
PreVte(c, a) == ArchLane(vregs[F_vt(c)], ElementLane(F_e(c), a))
PreCarry(a) == ArchLane(vco_carry, a)

(***************************************************************************)
(* C1. VADD: every lane of vd is sat16(sat16(min(vs,vte) + carry) +        *)
(* max(vs,vte)), every lane of accumulator LO is (vs + vte + carry) mod    *)
(* 2^16, and all carry and ne lanes are 0 afterwards.                      *)
(***************************************************************************)
C1_Step ==
    (DidVU(last', 16) /\ steps' = steps + 1 /\ \A a \in 0..7 : PreCarry(a) \in {0, 1}) =>
        \A a \in 0..7 :
            LET s == Signed16(PreVs(last', a))
                t == Signed16(PreVte(last', a))
                c == PreCarry(a)
            IN  /\ ArchLane(vregs'[F_vd(last')], a)
                     = Unsigned16(Clamp16(Clamp16(MinOf(s, t) + c) + MaxOf(s, t)))
                /\ ArchLane(accum'[0], a) = (PreVs(last', a) + PreVte(last', a) + c) % 65536
                /\ ArchLane(vco_carry', a) = 0
                /\ ArchLane(vco_ne', a) = 0

C1_VADD == [][C1_Step]_vars

\* VADD of 0x8000 + 0x8000 + 1 has happened: vd saturated, accumulator LO wrapped.
C1_Witness ==
    /\ DidVU(last, 16)
    /\ ~panicked
    /\ \E a \in 0..7 : ArchLane(vregs[F_vd(last)], a) = 32768 /\ ArchLane(accum[0], a) = 1
    /\ \E a \in 0..7 : ArchLane(vregs[F_vd(last)], a) = 32767

(***************************************************************************)
(* C2. VADDC: every lane of vd and of accumulator LO is (vs + vte) mod     *)
(* 2^16, the carry lane is 1 exactly when the unsigned sum reached 2^16,   *)
(* every ne lane is 0 afterwards; and the carry of architectural lane i is *)
(* bit i of the VCO value that CFC2 reads back.                            *)
(***************************************************************************)
C2_Step ==
    /\ (DidVU(last', 20) /\ steps' = steps + 1) =>
          \A a \in 0..7 :
             LET sum == PreVs(last', a) + PreVte(last', a)
                 wrapped == IF sum >= 65536 THEN 1 ELSE 0
             IN  /\ ArchLane(vregs'[F_vd(last')], a) = sum % 65536
                 /\ ArchLane(accum'[0], a) = sum % 65536
                 /\ ArchLane(vco_carry', a) = wrapped
                 /\ ArchLane(vco_ne', a) = 0
    /\ (last'.kind = "op" /\ last'.op = CFC2(F_vt(last'), 0) /\ steps' = steps + 1) =>
          \A i \in 0..7 :
             (u64_as_u16(regs'[F_vt(last')]) \div pow2(i)) % 2 = ArchLane(vco_carry, i)

C2_VADDC == [][C2_Step]_vars

\* VADDC has happened with a lane that wrapped and a lane that did not.
C2_Witness ==
    /\ DidVU(last, 20)
    /\ ~panicked
    /\ \E a \in 0..7 : ArchLane(vco_carry, a) = 1 /\ ArchLane(vregs[F_vd(last)], a) = 1
    /\ \E a \in 0..7 : ArchLane(vco_carry, a) = 0 /\ ArchLane(vregs[F_vd(last)], a) # 0

\* The fields of the load/store instruction word of call c
L_base(c) == (c.op \div pow2(21)) % 32
L_opcode(c) == (c.op \div pow2(11)) % 32
L_element(c) == (c.op \div pow2(7)) % 16
L_offset(c) == c.op % 128

\* The effective address (base + (offset << shift)) & 0xFFF of call c
AddressOf(c, shift) == (regs[L_base(c)][3] + L_offset(c) * pow2(shift)) % 4096

\* Call c is a load (kind "lwc") or a store (kind "swc") with the given opcode.
IsLS(c, kind, opcode) == c.kind = kind /\ L_opcode(c) = opcode

(***************************************************************************)
(* C3. LBV/LSV/LLV/LDV: the load replaces exactly the SIZE bytes of        *)
(* register vt that start at byte element (clipped at the end of the       *)
(* register) by DMEM[ea .. ea+SIZE); every other byte of vt and every      *)
(* other vector register is unchanged.                                     *)
(***************************************************************************)
C3_Step ==
    (last'.kind = "lwc" /\ L_opcode(last') \in 0..3 /\ steps' = steps + 1
        /\ AddressOf(last', L_opcode(last')) + pow2(L_opcode(last')) <= DmemSize) =>
        LET SIZE == pow2(L_opcode(last'))
            ea == AddressOf(last', L_opcode(last'))
            element == L_element(last')
            vt == F_vt(last')
        IN  /\ \A b \in 0..15 :
                ArchByte(vregs'[vt], b) =
                    IF b >= element /\ b < element + SIZE THEN dmem[ea + (b - element)]
                    ELSE ArchByte(vregs[vt], b)
            /\ \A r \in 0..NumVregs - 1 : r # vt => vregs'[r] = vregs[r]

C3_SubwordLoad == [][C3_Step]_vars

(***************************************************************************)
(* C4. LQV with element 0 at an address ea with ea & 0xF = k: the load     *)
(* completes, the top 16-k bytes of the register are DMEM[ea .. ea+16-k)   *)
(* and the low k bytes of the register keep their values.                  *)
(***************************************************************************)
C4_Step ==
    (IsLS(last', "lwc", 4) /\ L_element(last') = 0 /\ steps' = steps + 1) =>
        LET ea == AddressOf(last', 4)
            k == ea % 16
            vt == F_vt(last')
        IN  /\ ~panicked'
            /\ \A b \in 0..15 :
                ArchByte(vregs'[vt], b) =
                    IF b < 16 - k THEN dmem[ea + b] ELSE ArchByte(vregs[vt], b)

C4_QuadLoad == [][C4_Step]_vars

(***************************************************************************)
(* C5. LQV/SQV inverse at a 16-byte-aligned address: SQV completes; SQV of *)
(* a register (element 0) followed by LQV (element 0) from the same        *)
(* address into any register leaves that register equal to the stored      *)
(* one; SQV followed by LQV with the same vt, element and address leaves   *)
(* register vt as it was.                                                  *)
(***************************************************************************)
C5_Step ==
    /\ (IsLS(last', "swc", 4) /\ steps' = steps + 1 /\ AddressOf(last', 4) % 16 = 0) =>
          ~panicked'
    /\ (IsLS(last, "swc", 4) /\ IsLS(last', "lwc", 4) /\ steps' = steps + 1
           /\ L_base(last') = L_base(last) /\ L_offset(last') = L_offset(last)
           /\ AddressOf(last', 4) % 16 = 0) =>
          /\ ~panicked'
          /\ (L_element(last) = 0 /\ L_element(last') = 0) =>
                vregs'[F_vt(last')] = vregs[F_vt(last)]
          /\ (F_vt(last') = F_vt(last) /\ L_element(last') = L_element(last)) =>
                vregs'[F_vt(last')] = vregs[F_vt(last)]

C5_Inverse == [][C5_Step]_vars

(***************************************************************************)
(* C6. LQV/LRV partition: at a non-aligned ea, LQV (element 0) completes,  *)
(* and LQV at ea followed by LRV (element 0) at ea + 16 into the same      *)
(* register leaves the register equal to DMEM[ea .. ea+16), addresses      *)
(* taken modulo 4096, whatever the register held.                          *)
(***************************************************************************)
C6_Step ==
    /\ (IsLS(last', "lwc", 4) /\ L_element(last') = 0 /\ steps' = steps + 1
           /\ AddressOf(last', 4) % 16 # 0) =>
          ~panicked'
    /\ (IsLS(last, "lwc", 4) /\ IsLS(last', "lwc", 5) /\ steps' = steps + 1
           /\ L_element(last) = 0 /\ L_element(last') = 0
           /\ F_vt(last') = F_vt(last) /\ L_base(last') = L_base(last)
           /\ L_offset(last') = L_offset(last) + 1
           /\ AddressOf(last, 4) % 16 # 0) =>
          /\ ~panicked'
          /\ \A b \in 0..15 :
                ArchByte(vregs'[F_vt(last')], b) = dmem[(AddressOf(last, 4) + b) % 4096]

C6_Partition == [][C6_Step]_vars

(***************************************************************************)
(* C7. Element selector: for every register vt and every e, lane a of the  *)
(* operand vte is lane ElementLane(e, a) of vt.  The registers checked are *)
(* v0 and every register that holds a non-zero value (of an all-zero vt    *)
(* every selection is all-zero).                                           *)
(***************************************************************************)
C7_ElementSelector ==
    \A rt \in {r \in 0..NumVregs - 1 : r = 0 \/ vregs[r] # u128_zero} : \A e \in 0..15 :
        LET vte == Vectorop_vte(Cur, VU(e, rt, 0, 0, 0))
        IN  \A a \in 0..7 : vte[7 - a] = ArchLane(vregs[rt], ElementLane(e, a))

\* VOR with a pair selector (e = 2) has happened on a vt whose lanes all differ.
C7_Witness ==
    /\ DidVU(last, 42)
    /\ F_e(last) = 2
    /\ ~panicked
    /\ \A a, b \in 0..7 : a # b => ArchLane(vregs[F_vt(last)], a) # ArchLane(vregs[F_vt(last)], b)
    /\ \A a \in 0..7 :
          ArchLane(accum[0], a) =
             bitor(ArchLane(vregs[F_vs(last)], a), ArchLane(vregs[F_vt(last)], ElementLane(2, a)))

(***************************************************************************)
(* C8. In every state reached by op, lwc, swc and set_reg calls, each of   *)
(* the eight VCO carry lanes and each of the eight VCO ne lanes is 0 or 1, *)
(* and reg(REG_VCO) is below 2^16.                                         *)
(***************************************************************************)
C8_FlagLanes ==
    /\ \A a \in 0..7 : ArchLane(vco_carry, a) \in {0, 1} /\ ArchLane(vco_ne, a) \in {0, 1}
    /\ \A k \in 0..13 : reg(Cur, REG_VCO)[k] = 0

\* CTC2 has written 0xA5C3 to VCO: carry and ne lanes of both values exist.
C8_Witness ==
    /\ last.kind = "op"
    /\ last.op = CTC2(3, 0)
    /\ ~panicked
    /\ u128_as_u16(reg(Cur, REG_VCO)) = 42435
    /\ ArchLane(vco_carry, 0) = 1 /\ ArchLane(vco_carry, 2) = 0
    /\ ArchLane(vco_ne, 0) = 1 /\ ArchLane(vco_ne, 1) = 0

(***************************************************************************)
(* C9. VCC and VCE round trip: CTC2 writing the 16-bit value x of a GPR to *)
(* VCC (rs = 1) or VCE (rs = 2), followed by CFC2 reading the same flag    *)
(* register, puts x into the destination GPR.                              *)
(***************************************************************************)
C9_Step ==
    (/\ last.kind = "op" /\ last'.kind = "op" /\ steps' = steps + 1
     /\ Vectorop_rs(last.op) \in {1, 2}
     /\ last.op = CTC2(Vectorop_rt(last.op), Vectorop_rs(last.op))
     /\ last'.op = CFC2(Vectorop_rt(last'.op), Vectorop_rs(last.op))) =>
        /\ ~panicked'
        /\ regs'[Vectorop_rt(last'.op)] = u16_as_u64(u64_as_u16(regs[Vectorop_rt(last.op)]))

C9_FlagRoundTrip == [][C9_Step]_vars

(***************************************************************************)
(* C10. Register accessors: set_reg(i, v) on a vector register i makes     *)
(* reg(i) return v and leaves every other register, the accumulator and    *)
(* the flags unchanged; set_reg(REG_VCO, x) makes vco() return the low 16  *)
(* bits x and reg(REG_VCO) return x zero-extended.                         *)
(***************************************************************************)
C10_Step ==
    (last'.kind = "set_reg" /\ steps' = steps + 1) =>
        /\ last'.idx < NumVregs =>
              /\ ~panicked'
              /\ reg(Cur', last'.idx) = last'.val
              /\ \A j \in 0..REG_ACCUM_HI : j # last'.idx => reg(Cur', j) = reg(Cur, j)
              /\ accum' = accum /\ vco_carry' = vco_carry /\ vco_ne' = vco_ne
        /\ last'.idx = REG_VCO =>
              /\ ~panicked'
              /\ vco(Cur') = u128_as_u16(last'.val)
              /\ reg(Cur', REG_VCO) = u16_as_u128(u128_as_u16(last'.val))

C10_RegisterRoundTrip == [][C10_Step]_vars

\* set_reg has written sixteen distinct bytes to a vector register.
C10_Witness ==
    /\ last.kind = "set_reg"
    /\ last.idx = 31
    /\ last.val = ValC
    /\ ~panicked
    /\ reg(Cur, 31) = ValC
    /\ ArchByte(vregs[31], 0) = 160 /\ ArchByte(vregs[31], 15) = 175

(***************************************************************************)
(* C13. VSAR with e in {8, 9, 10} sets vd to accumulator slice HI, MID, LO *)
(* as the preceding instructions left it, with e in {0, 1, 2} it sets vd   *)
(* to zero; the accumulator, the carry and ne flags, every register other  *)
(* than vd, the GPRs and DMEM are unchanged.                               *)
(***************************************************************************)
C13_Step ==
    (DidVU(last', 29) /\ steps' = steps + 1 /\ F_e(last') \in {0, 1, 2, 8, 9, 10}) =>
        LET e == F_e(last')
            vd == F_vd(last')
        IN  /\ ~panicked'
            /\ \A a \in 0..7 :
                  ArchLane(vregs'[vd], a) =
                      IF e >= 8 THEN ArchLane(accum[REG_ACCUM_HI - REG_ACCUM_LO - (e - 8)], a)
                      ELSE 0
            /\ accum' = accum /\ vco_carry' = vco_carry /\ vco_ne' = vco_ne
            /\ \A r \in 0..NumVregs - 1 : r # vd => vregs'[r] = vregs[r]
            /\ regs' = regs /\ dmem' = dmem

C13_VSAR == [][C13_Step]_vars

\* VSAR e = 8 has read the accumulator HI that the multiply just before it wrote.
C13_Witness ==
    /\ DidVU(last, 29) /\ F_e(last) = 8
    /\ DidVU(prev, 0)
    /\ ~panicked
    /\ \A a \in 0..7 : ArchLane(vregs[F_vd(last)], a) = LanesB[a + 1]
    /\ \A a \in 0..7 : ArchLane(accum[2], a) = LanesB[a + 1]
    /\ \E a \in 0..7 : ArchLane(accum[0], a) # ArchLane(accum[2], a)
                          \/ ArchLane(accum[1], a) # ArchLane(accum[2], a)

(***************************************************************************)
(* C16. VADD: with carry lanes in {0, 1}, every lane of vd is the exact    *)
(* sum vs + vte + carry of the signed lanes, clamped once to               *)
(* [-32768, 32767].                                                        *)
(***************************************************************************)
C16_Step ==
    (DidVU(last', 16) /\ steps' = steps + 1 /\ \A a \in 0..7 : PreCarry(a) \in {0, 1}) =>
        \A a \in 0..7 :
            ArchLane(vregs'[F_vd(last')], a) =
                Unsigned16(Clamp16(Signed16(PreVs(last', a)) + Signed16(PreVte(last', a))
                                     + PreCarry(a)))

C16_VADDExactSum == [][C16_Step]_vars

\* VADD of 0x7FFF + 0xFFFF + 1 has happened (vte is lane 2 of vt broadcast):
\* vd holds 0x7FFF and accumulator LO shows that the carry was 1.
C16_Witness ==
    /\ DidVU(last, 16) /\ F_e(last) = 10
    /\ F_vd(last) # F_vs(last) /\ F_vd(last) # F_vt(last)
    /\ ~panicked
    /\ ArchLane(vregs[F_vs(last)], 1) = 32767
    /\ ArchLane(vregs[F_vt(last)], 2) = 65535
    /\ ArchLane(accum[0], 1) = 32767
    /\ ArchLane(vregs[F_vd(last)], 1) = 32767

\* LTV of call c: its address, the start of its window, and the i-th most
\* significant half-word of the window rotated left by element + (ea & 8)
\* bytes (DMEM addresses taken modulo 4096).
TransAddress(c) == (regs[L_base(c)][3] + L_offset(c)) % 4096
TransStart(c) == TransAddress(c) - (TransAddress(c) % 8)
TransRotation(c) == (L_element(c) + ((TransAddress(c) % 16) - (TransAddress(c) % 8))) % 16
TransByte(c, j) == dmem[(TransStart(c) + ((j + TransRotation(c)) % 16)) % 4096]
TransHalfword(c, i) == TransByte(c, 2 * i) * 256 + TransByte(c, 2 * i + 1)
TransBase(c) == F_vt(c) - (F_vt(c) % 8)
TransRegister(c, i) == TransBase(c) + ((L_element(c) \div 2 + i) % 8)

(***************************************************************************)
(* C14. LTV performs exactly eight 16-bit writes: the i-th most            *)
(* significant half-word of the rotated window goes to register            *)
(* vtbase + ((element/2 + i) mod 8) at internal lane 7 - i (architectural  *)
(* lane i); every other lane of the group, every register outside the      *)
(* group, the accumulator, the flags and DMEM are unchanged.               *)
(***************************************************************************)
C14_Step ==
    (IsLS(last', "lwc", 11) /\ steps' = steps + 1) =>
        /\ \A r \in 0..NumVregs - 1 : \A i \in 0..7 :
              LittleEndian_read_u16(vregs'[r], (7 - i) * 2) =
                  IF r = TransRegister(last', i) THEN TransHalfword(last', i)
                  ELSE LittleEndian_read_u16(vregs[r], (7 - i) * 2)
        /\ accum' = accum /\ vco_carry' = vco_carry /\ vco_ne' = vco_ne
        /\ dmem' = dmem

C14_Transpose == [][C14_Step]_vars

(***************************************************************************)
(* C15. Every implemented load and store sub-opcode completes normally for *)
(* every base, offset, element and vt, and DMEM stays the 4 KiB buffer of  *)
(* bytes at offsets 0..4095.                                               *)
(***************************************************************************)
C15_Step ==
    (/\ steps' = steps + 1
     /\ \/ last'.kind = "lwc" /\ L_opcode(last') \in LoadOpcodes
        \/ last'.kind = "swc" /\ L_opcode(last') \in StoreOpcodes) =>
        /\ ~panicked'
        /\ DOMAIN dmem' = 0..DmemSize - 1

C15_NoAbort == [][C15_Step]_vars

(***************************************************************************)
(* The fields of a COP1 instruction word, the float an instruction reads   *)
(* and integers as a sign and a magnitude.                                 *)
(***************************************************************************)
FP_fmt(c) == (c.op \div pow2(21)) % 32
FP_func(c) == c.op % 64
FP_fs(c) == (c.op \div pow2(11)) % 32
FP_fd(c) == (c.op \div pow2(6)) % 32
FP_format(c) == IF FP_fmt(c) = 16 THEN F32 ELSE F64
DidFP(c, funcs) == c.kind = "cop1" /\ FP_fmt(c) \in {16, 17} /\ FP_func(c) \in funcs

\* The magnitude of the integer nearest to the finite float x, the one
\* between two integers going to the even one.
NearestEven(x) ==
    IF x.exp >= 0 THEN bn_shl(x.sig, x.exp)
    ELSE LET n == bn_shr(x.sig, 0 - x.exp)
             frac == bn_low(x.sig, 0 - x.exp)
             c == bn_cmp(frac, bn_shl(<<1>>, (0 - x.exp) - 1))
         IN  IF c > 0 \/ (c = 0 /\ bn_bit(n, 0) = 1) THEN bn_add(n, <<1>>) ELSE n

\* the float r is the integer of magnitude mag and the sign of x, or zero
IsInteger(r, x, mag) ==
    /\ r.cls = "fin"
    /\ IF r.exp >= 0 THEN bn_shl(r.sig, r.exp) = mag
       ELSE bn_low(r.sig, 0 - r.exp) = <<>> /\ bn_shr(r.sig, 0 - r.exp) = mag
    /\ mag # <<>> => r.sign = x.sign

\* the integer of magnitude mag and sign neg is an iN
InRange(neg, mag, N) ==
    LET c == bn_cmp(mag, bn_shl(<<1>>, N - 1))
    IN  c < 0 \/ (c = 0 /\ neg = 1)

(***************************************************************************)
(* C12. Banker's rounding of ROUND.L and ROUND.W (func 0x08, 0x0C): for    *)
(* every finite float of the register file, f32 and f64, bankers_round is  *)
(* the nearest integer, and k + 0.5 gives k for even k and k + 1 for odd   *)
(* k, negative k included; where that integer fits the integer type the    *)
(* instruction completes and fd holds it in two's complement.              *)
(***************************************************************************)
C12_Step ==
    (DidFP(last', {8, 12}) /\ steps' = steps + 1) =>
        LET fmt == FP_format(last')
            N == IF FP_func(last') = 8 THEN 64 ELSE 32
        IN  \A x \in {from_u64bits(fmt, cop1_regs[FP_fs(last')])} :
                (x.cls = "fin" /\ x.exp + Len(x.sig) <= 64) =>
                    \A mag \in {NearestEven(x)} : \A r \in {bankers_round(fmt, x)} :
                        /\ IsInteger(r, x, mag)
                        /\ InRange(x.sign, mag, N) =>
                              /\ ~panicked'
                              /\ cop1_regs'[FP_fd(last')] = int_as_u64(Some(x.sign, mag))

C12_BankersRound == [][C12_Step]_vars

\* ROUND.W.S has rounded -2.5 (k = -3, odd) to -2.
C12_Witness ==
    /\ DidFP(last, {12}) /\ FP_fmt(last) = 16 /\ ~panicked
    /\ from_u64bits(F32, cop1_regs[FP_fs(last)]) =
           F_fin(1, bn_shl(<<1, 0, 1>>, 21), 0 - 22)
    /\ cop1_regs[FP_fd(last)] = u64_of(65535, 65535, 65535, 65534)

(***************************************************************************)
(* C11. No partial result on a fatal outcome: a call that ends fatally     *)
(* because the COP1 fmt or func, the COP2 func, e, control register or     *)
(* load/store sub-opcode or the VSAR e is not implemented, or because a    *)
(* float-to-integer conversion is out of range, leaves every FPU register, *)
(* vector register, accumulator slice, VCO lane, GPR and DMEM byte as it   *)
(* was; and a call of an instruction that is not implemented does end      *)
(* fatally.                                                                *)
(***************************************************************************)
Unimplemented(c) ==
    \/ c.kind = "cop1" /\ FP_fmt(c) \notin {16, 17}
    \/ c.kind = "cop1" /\ FP_func(c) \notin (0..5) \cup (7..15)
    \/ /\ c.kind = "op" /\ (c.op \div pow2(25)) % 2 = 1
       /\ \/ c.op % 64 \notin VmulFuncs \cup {16, 20, 29} \cup (40..45)
          \/ c.op % 64 = 29 /\ F_e(c) \notin {0, 1, 2, 8, 9, 10}
    \/ /\ c.kind = "op" /\ (c.op \div pow2(25)) % 2 = 0
       /\ F_e(c) \notin {2, 6} \/ F_vs(c) > 2
    \/ c.kind = "lwc" /\ L_opcode(c) \notin LoadOpcodes
    \/ c.kind = "swc" /\ L_opcode(c) \notin StoreOpcodes

C11_Step ==
    steps' = steps + 1 =>
        /\ Unimplemented(last') => panicked'
        /\ (panicked' /\ (Unimplemented(last') \/ DidFP(last', 8..15))) =>
               /\ cop1_regs' = cop1_regs
               /\ vregs' = vregs /\ accum' = accum
               /\ vco_carry' = vco_carry /\ vco_ne' = vco_ne
               /\ regs' = regs /\ dmem' = dmem

C11_NoPartialResult == [][C11_Step]_vars

\* TRUNC.W.S of the NaN in register 11, to be written to register 11, has
\* ended fatally and the register still holds the NaN.
C11_Witness ==
    /\ panicked /\ DidFP(last, {13}) /\ FP_fmt(last) = 16
    /\ FP_fs(last) = FP_fd(last)
    /\ from_u64bits(F32, cop1_regs[FP_fd(last)]).cls = "nan"

=============================================================================
